---- MODULE Spec2Model ----
(***************************************************************************)
(* Model of the resource trace assembler of crossplane-portal:             *)
(* fetchResourceTrace (services/k8sService.js) and the fetch gateway       *)
(* fetchResource it calls.  JavaScript strings are modelled as sequences   *)
(* of one-character strings, so that template literals, toLowerCase,       *)
(* endsWith, includes and split are computed as the code computes them.    *)
(* Where a string is only compared with others (an element of a Set, the   *)
(* path of a request) the state holds Str(s), the TLA+ string of the same  *)
(* characters.  An absent object field (undefined) is a field missing from *)
(* the record.                                                             *)
(***************************************************************************)
EXTENDS Integers, Sequences, FiniteSets, TLC

\* Op applied to the value of v: v is evaluated once, whatever the number of times
\* Op uses its argument
With(v, Op(_)) == CHOOSE out \in {Op(x) : x \in {v}} : TRUE

(* ------------------------------------------------------------------ *)
(* JavaScript strings                                                  *)
(* ------------------------------------------------------------------ *)

S_null == <<"n","u","l","l">>
S_undefined == <<"u","n","d","e","f","i","n","e","d">>
S_slash == <<"/">>
S_aws == <<"a","w","s">>
S_apis == <<"/","a","p","i","s","/">>
S_namespaces == <<"n","a","m","e","s","p","a","c","e","s">>

Upper == <<"A","B","C","D","E","F","G","H","I","J","K","L","M","N","O","P","Q","R","S","T","U","V","W","X","Y","Z">>
Lower == <<"a","b","c","d","e","f","g","h","i","j","k","l","m","n","o","p","q","r","s","t","u","v","w","x","y","z">>

\* String.prototype.toLowerCase on one character
LowerChar(c) ==
    IF \E i \in DOMAIN Upper : Upper[i] = c
    THEN Lower[CHOOSE i \in DOMAIN Upper : Upper[i] = c]
    ELSE c

ToLowerCase(s) == [i \in DOMAIN s |-> LowerChar(s[i])]

EndsWith(s, suffix) ==
    /\ Len(s) >= Len(suffix)
    /\ SubSeq(s, Len(s) - Len(suffix) + 1, Len(s)) = suffix

Includes(s, sub) ==
    \E i \in 1..(Len(s) - Len(sub) + 1) : SubSeq(s, i, i + Len(sub) - 1) = sub

\* String.prototype.split on a one-character separator: the sequence of segments
RECURSIVE Split(_, _)
Split(s, sep) ==
    With(s, LAMBDA str :
        IF \A i \in DOMAIN str : str[i] # sep
        THEN <<str>>
        ELSE LET k == CHOOSE i \in DOMAIN str :
                          str[i] = sep /\ \A j \in 1..(i-1) : str[j] # sep
             IN <<SubSeq(str, 1, k - 1)>> \o Split(SubSeq(str, k + 1, Len(str)), sep))

\* String.prototype.split on a separator of several characters
RECURSIVE SplitOn(_, _)
SplitOn(s, sep) ==
    With(s, LAMBDA str :
        IF ~Includes(str, sep)
        THEN <<str>>
        ELSE LET k == CHOOSE i \in 1..(Len(str) - Len(sep) + 1) :
                          /\ SubSeq(str, i, i + Len(sep) - 1) = sep
                          /\ \A j \in 1..(i-1) : SubSeq(str, j, j + Len(sep) - 1) # sep
             IN <<SubSeq(str, 1, k - 1)>> \o SplitOn(SubSeq(str, k + Len(sep), Len(str)), sep))

\* the TLA+ string of the characters of s (one-to-one)
RECURSIVE Str(_)
Str(s) ==
    With(s, LAMBDA chars :
        IF Len(chars) = 0 THEN ""
        ELSE IF Len(chars) = 1 THEN chars[1]
        ELSE Str(SubSeq(chars, 1, Len(chars) \div 2))
             \o Str(SubSeq(chars, Len(chars) \div 2 + 1, Len(chars))))

\* a value is truthy when it is present and not the empty string
Has(r, f) == f \in DOMAIN r
Truthy(r, f) == Has(r, f) /\ Len(r[f]) > 0

\* `${x}` for a field that may be absent (undefined)
Interp(r, f) == IF Has(r, f) THEN r[f] ELSE S_undefined

(* ------------------------------------------------------------------ *)
(* JavaScript null, results of async calls                             *)
(* ------------------------------------------------------------------ *)

NULL == [null |-> TRUE]
Undefined == [undefined |-> TRUE]
Value(v) == [t |-> "value", v |-> v]
Thrown == [t |-> "throw"]
ReturnedNull == [t |-> "null"]

(* ------------------------------------------------------------------ *)
(* References: a string reference is [str |-> s]; an object reference  *)
(* is a record holding some of kind, apiVersion, namespace, name.      *)
(* ------------------------------------------------------------------ *)

IsStringRef(ref) == Has(ref, "str")

\* refs.filter(Boolean): an empty string is dropped, every object is kept
FilterBoolean(refs) == SelectSeq(refs, LAMBDA ref : ~(IsStringRef(ref) /\ Len(ref.str) = 0))

\* const resourceRef = typeof ref === 'string' ? ref : ref.name, and !resourceRef
RefNameTruthy(ref) == IF IsStringRef(ref) THEN Len(ref.str) > 0 ELSE Truthy(ref, "name")

\* `${resourceKind}/${resourceApiVersion}/${namespace}/${resourceRef}`
ResourceId(ref) ==
    IF IsStringRef(ref)
    THEN S_null \o S_slash \o S_null \o S_slash \o S_null \o S_slash \o ref.str
    ELSE Interp(ref, "kind") \o S_slash \o Interp(ref, "apiVersion") \o S_slash
         \o Interp(ref, "namespace") \o S_slash \o Interp(ref, "name")

\* base.endsWith('s') ? base : base + 's'
Plural(kind) ==
    LET base == ToLowerCase(kind)
    IN IF EndsWith(base, <<"s">>) THEN base ELSE base \o <<"s">>

\* a path that takes the namespace of the reference whatever its group
ResourcePathByNamespace(ref) ==
    IF ~IsStringRef(ref) /\ Truthy(ref, "kind") /\ Truthy(ref, "apiVersion")
    THEN LET parts == Split(ref.apiVersion, "/")
             group == parts[1]
             version == IF Len(parts) >= 2 THEN parts[2] ELSE S_undefined
             plural == Plural(ref.kind)
         IN IF ~Truthy(ref, "namespace")
            THEN S_apis \o group \o S_slash \o version \o S_slash \o plural
                 \o S_slash \o ref.name
            ELSE S_apis \o group \o S_slash \o version \o S_slash \o S_namespaces
                 \o S_slash \o ref.namespace \o S_slash \o plural \o S_slash \o ref.name
    ELSE IF IsStringRef(ref) THEN ref.str
    ELSE <<>>

\* a path that is cluster-scoped whatever the reference, and built for a string too
ResourcePathClusterScoped(ref) ==
    LET parts == Split(Interp(ref, "apiVersion"), "/")
        group == parts[1]
        version == IF Len(parts) >= 2 THEN parts[2] ELSE S_undefined
    IN S_apis \o group \o S_slash \o version \o S_slash
       \o (IF Has(ref, "kind") THEN Plural(ref.kind) ELSE S_undefined)
       \o S_slash \o (IF IsStringRef(ref) THEN ref.str ELSE ref.name)

\* a path built from whatever the reference holds, `undefined` for what it lacks
ResourcePathUnchecked(ref) ==
    IF IsStringRef(ref) THEN ref.str
    ELSE LET parts == Split(Interp(ref, "apiVersion"), "/")
             group == parts[1]
             version == IF Len(parts) >= 2 THEN parts[2] ELSE S_undefined
             plural == Plural(Interp(ref, "kind"))
         IN IF Includes(group, S_aws) \/ ~Truthy(ref, "namespace")
            THEN S_apis \o group \o S_slash \o version \o S_slash \o plural
                 \o S_slash \o ref.name
            ELSE S_apis \o group \o S_slash \o version \o S_slash \o S_namespaces
                 \o S_slash \o ref.namespace \o S_slash \o plural \o S_slash \o ref.name

\* the path of a managed reference; the empty string when none is constructed
ResourcePath(ref) ==
    IF ~IsStringRef(ref) /\ Truthy(ref, "kind") /\ Truthy(ref, "apiVersion")
    THEN LET parts == Split(ref.apiVersion, "/")
             group == parts[1]
             version == IF Len(parts) >= 2 THEN parts[2] ELSE S_undefined
             plural == Plural(ref.kind)
         IN IF Includes(group, S_aws) \/ ~Truthy(ref, "namespace")
            THEN S_apis \o group \o S_slash \o version \o S_slash \o plural
                 \o S_slash \o ref.name
            ELSE S_apis \o group \o S_slash \o version \o S_slash \o S_namespaces
                 \o S_slash \o ref.namespace \o S_slash \o plural \o S_slash \o ref.name
    ELSE IF IsStringRef(ref) THEN ref.str
    ELSE <<>>

\* compositeRef.kind.toLowerCase() + 's' and the path of the composite
CompositePath(compositeRef) ==
    S_apis \o Interp(compositeRef, "apiVersion") \o S_slash
    \o (ToLowerCase(compositeRef.kind) \o <<"s">>) \o S_slash \o Interp(compositeRef, "name")

(* ------------------------------------------------------------------ *)
(* The fetch gateway.  The outcome of api.k8sApi(request) is either a  *)
(* resolved response, [resolve |-> TRUE, response |-> r], where r      *)
(* holds data or error (the k8s-api handler catches every failure and  *)
(* returns it as a response), or a rejection,                          *)
(* [resolve |-> FALSE, error |-> e].                                   *)
(* ------------------------------------------------------------------ *)

DataResponse(obj) == [resolve |-> TRUE, response |-> [data |-> obj]]
ErrorResponse(code) ==
    [resolve |-> TRUE, response |-> [error |-> <<"H","T","T","P"," ","r","e","q","u","e","s","t"," ","f","a","i","l","e","d">>, statusCode |-> code]]
Rejection(code) == [resolve |-> FALSE, error |-> [response |-> [statusCode |-> code]]]

StatusNotFound == 404
StatusServerError == 500

\* fetchResource: the value returned, null, or an exception
FetchResource(outcome) ==
    With(outcome, LAMBDA o :
        IF o.resolve
        THEN IF Has(o.response, "error") /\ Len(o.response.error) > 0 THEN Thrown
             ELSE IF ~Has(o.response, "data") THEN Thrown
             ELSE Value(o.response.data)
        ELSE IF Has(o.error, "response") /\ o.error.response.statusCode = StatusNotFound
             THEN ReturnedNull
             ELSE Thrown)

(* ------------------------------------------------------------------ *)
(* Helpers of fetchResourceTrace                                       *)
(* ------------------------------------------------------------------ *)

\* the path fetchResourceEvents asks for (a TLA+ string, see Str); the empty
\* string when building it throws (resource.metadata is undefined) and the helper
\* returns [] without a fetch
EventsPath(resource) ==
    IF ~Has(resource, "metadata") THEN ""
    ELSE LET fs == "involvedObject.name=" \o Str(Interp(resource.metadata, "name"))
                   \o ",involvedObject.kind=" \o Str(Interp(resource, "kind"))
                   \o ",involvedObject.uid=" \o Str(Interp(resource.metadata, "uid"))
         IN IF Truthy(resource.metadata, "namespace")
            THEN "/api/v1/namespaces/" \o Str(resource.metadata.namespace)
                 \o "/events?fieldSelector=" \o fs
            ELSE "/api/v1/events?fieldSelector=" \o fs

\* events?.items || [] on success, [] on any failure
EventsOf(fetched) ==
    IF fetched.t = "value" /\ Has(fetched.v, "items") THEN fetched.v.items ELSE <<>>

StatusField(resource, f) == Has(resource, "status") /\ Has(resource.status, f)

\* processConnectionDetails
ProcessConnectionDetails(resource) ==
    LET detailsArray == IF StatusField(resource, "connectionDetails")
                        THEN resource.status.connectionDetails ELSE <<>>
    IN [i \in DOMAIN detailsArray |->
          LET detail == detailsArray[i]
              kept == {f \in {"type", "name", "value"} : Has(detail, f)}
                      \cup (IF Has(detail, "sensitive") /\ detail.sensitive
                            THEN {"sensitive"} ELSE {})
          IN [f \in kept |-> IF f = "sensitive" THEN TRUE ELSE detail[f]]]

\* the references of the connection details typed "Reference" (detail.value)
ConnectionRefs(resource) ==
    LET details == IF StatusField(resource, "connectionDetails")
                   THEN resource.status.connectionDetails ELSE <<>>
        typed == SelectSeq(details, LAMBDA d : Has(d, "type") /\ d.type = "Reference")
    IN [i \in DOMAIN typed |->
          IF Has(typed[i], "value") THEN [str |-> typed[i].value] ELSE [str |-> <<>>]]

\* the references collected from a fetched managed resource, in the order of the
\* code; reading resource.spec.resourceRefs throws when the resource has no spec
ExtractThrows(resource) == ~Has(resource, "spec")

\* the references collected with status.resource.refs before the connection details
ExtractRefsAsListed(resource) ==
    (IF Has(resource.spec, "resourceRefs") THEN resource.spec.resourceRefs ELSE <<>>)
    \o (IF StatusField(resource, "resourceRefs") THEN resource.status.resourceRefs ELSE <<>>)
    \o (IF StatusField(resource, "resources") THEN resource.status.resources ELSE <<>>)
    \o (IF StatusField(resource, "resource") /\ Has(resource.status.resource, "refs")
        THEN resource.status.resource.refs ELSE <<>>)
    \o ConnectionRefs(resource)
    \o (IF Has(resource, "references") THEN resource.references ELSE <<>>)

ExtractRefs(resource) ==
    (IF Has(resource.spec, "resourceRefs") THEN resource.spec.resourceRefs ELSE <<>>)
    \o (IF StatusField(resource, "resourceRefs") THEN resource.status.resourceRefs ELSE <<>>)
    \o (IF StatusField(resource, "resources") THEN resource.status.resources ELSE <<>>)
    \o ConnectionRefs(resource)
    \o (IF StatusField(resource, "resource") /\ Has(resource.status.resource, "refs")
        THEN resource.status.resource.refs ELSE <<>>)
    \o (IF Has(resource, "references") THEN resource.references ELSE <<>>)

\* the managed references of the composite
ManagedRefs(xr) ==
    (IF Has(xr, "spec") /\ Has(xr.spec, "resourceRefs") THEN xr.spec.resourceRefs ELSE <<>>)
    \o (IF StatusField(xr, "resourceRefs") THEN xr.status.resourceRefs ELSE <<>>)
    \o (IF StatusField(xr, "resources") THEN xr.status.resources ELSE <<>>)
    \o (IF StatusField(xr, "resource") /\ Has(xr.status.resource, "refs")
        THEN xr.status.resource.refs ELSE <<>>)

\* dep.status?.conditions?.find(c => c.type === type)?.status === 'True'
ConditionTrue(dep, type) ==
    /\ StatusField(dep, "conditions")
    /\ \E i \in DOMAIN dep.status.conditions :
          /\ dep.status.conditions[i].type = type
          /\ \A j \in 1..(i - 1) : dep.status.conditions[j].type # type
          /\ dep.status.conditions[i].status = "True"

\* a status that is true as soon as one dependency has the condition
SomeDependencyStatus(validDependencies) ==
    [ready |-> \E i \in DOMAIN validDependencies : ConditionTrue(validDependencies[i], "Ready"),
     synced |-> \E i \in DOMAIN validDependencies : ConditionTrue(validDependencies[i], "Synced")]

\* propagatedStatus = { ready: validDependencies.every(...), synced: validDependencies.every(...) }
PropagatedStatus(validDependencies) ==
    [ready |-> \A i \in DOMAIN validDependencies : ConditionTrue(validDependencies[i], "Ready"),
     synced |-> \A i \in DOMAIN validDependencies : ConditionTrue(validDependencies[i], "Synced")]

\* { ...resource, dependencies, events, connectionDetails, propagatedStatus }
EnhancedResource(resource, validDependencies, events) ==
    [dependencies |-> validDependencies,
     events |-> events,
     connectionDetails |-> ProcessConnectionDetails(resource),
     propagatedStatus |-> PropagatedStatus(validDependencies)] @@ resource

(* ------------------------------------------------------------------ *)
(* The k8s-api handler of the main process: from the path of a request *)
(* to the call it makes on the API client                              *)
(* ------------------------------------------------------------------ *)

S_namespacesSegment == S_slash \o S_namespaces \o S_slash

\* array[k] (k counted from 0), undefined past the end
At(array, k) == IF k + 1 <= Len(array) THEN array[k + 1] ELSE Undefined

\* path.split('/').filter(Boolean)
PathParts(path) == SelectSeq(Split(path, "/"), LAMBDA part : Len(part) > 0)

\* path.includes('/namespaces/') ? path.split('/namespaces/')[1].split('/')[0] : undefined
PathNamespace(path) ==
    IF Includes(path, S_namespacesSegment)
    THEN Split(SplitOn(path, S_namespacesSegment)[2], "/")[1]
    ELSE Undefined

\* a value that is neither undefined nor the empty string
Given(v) == v # Undefined /\ v # <<>>

\* the branch for paths that start with /apis/: the call on CustomObjectsApi
CustomObjectsCall(path, method) ==
    LET pathParts == PathParts(path)
        group == At(pathParts, 1)
        version == At(pathParts, 2)
        plural == At(pathParts, 3)
        namespace == PathNamespace(path)
        name == At(pathParts, Len(pathParts) - 1)
    IN IF method = "GET"
       THEN IF Given(name) /\ name # plural
            THEN IF Given(namespace)
                 THEN [api |-> "getNamespacedCustomObject", group |-> group,
                       version |-> version, namespace |-> namespace, plural |-> plural,
                       name |-> name]
                 ELSE [api |-> "getClusterCustomObject", group |-> group,
                       version |-> version, plural |-> plural, name |-> name]
            ELSE IF Given(namespace)
                 THEN [api |-> "listNamespacedCustomObject", group |-> group,
                       version |-> version, namespace |-> namespace, plural |-> plural]
                 ELSE [api |-> "listClusterCustomObject", group |-> group,
                       version |-> version, plural |-> plural]
       ELSE IF method = "POST"
       THEN IF Given(namespace)
            THEN [api |-> "createNamespacedCustomObject", group |-> group,
                  version |-> version, namespace |-> namespace, plural |-> plural]
            ELSE [api |-> "createClusterCustomObject", group |-> group,
                  version |-> version, plural |-> plural]
       ELSE [api |-> "throw"]

\* the branch for the other paths: the call on CoreV1Api
CoreCall(path, method) ==
    LET resourceType == At(Split(path, "/"), 1)
        namespace == PathNamespace(path)
        name == Split(path, "/")[Len(Split(path, "/"))]
    IN IF method = "GET"
       THEN IF Given(name) /\ name # resourceType
            THEN IF Given(namespace)
                 THEN [api |-> "readNamespacedResource", resourceType |-> resourceType,
                       name |-> name, namespace |-> namespace]
                 ELSE [api |-> "readResource", resourceType |-> resourceType, name |-> name]
            ELSE IF Given(namespace)
                 THEN [api |-> "listNamespacedResource", resourceType |-> resourceType,
                       namespace |-> namespace]
                 ELSE [api |-> "listResource", resourceType |-> resourceType]
       ELSE IF method = "POST"
       THEN IF Given(namespace)
            THEN [api |-> "createNamespacedResource", resourceType |-> resourceType,
                  namespace |-> namespace]
            ELSE [api |-> "createResource", resourceType |-> resourceType]
       ELSE [api |-> "throw"]

\* path.startsWith('/apis/') ? ... : ...
ClientCall(path, method) ==
    With(path, LAMBDA p :
        IF Len(p) >= Len(S_apis) /\ SubSeq(p, 1, Len(S_apis)) = S_apis
        THEN CustomObjectsCall(p, method)
        ELSE CoreCall(p, method))

(* ------------------------------------------------------------------ *)
(* State                                                               *)
(* ------------------------------------------------------------------ *)

\* claim:   the claim object the caller passes to fetchResourceTrace (NULL for none);
\*          every invocation works on this one object
\* cluster: the contents of the cluster, which decide what the gateway answers
\*          for each path (ClusterEntries below)
\* scope:   the invocations of fetchResourceTrace the caller makes
\* inv:     the locals of each invocation, its position (pc), the calls of
\*          fetchResourceAndDependencies it has made (frames, keyed by the position
\*          of the call in the call tree) and the requests it has sent (sent)
\* kube:    the main process: the current context of its kubeConfig and, for each
\*          invocation, the contexts the handler served its requests in
\* modal:   the state of TraceModal: loading, error and traceData
\* handled: the last request the k8s-api handler took: the path, the method, and
\*          the call it made on the API client (and, as asked, what the path
\*          was built from)
VARIABLES claim, cluster, scope, inv, kube, modal, handled

vars == <<claim, cluster, scope, inv, kube, modal, handled>>

\* the contexts of the kubeconfig
Contexts == {"dev", "prod"}

Kube0 == [current |-> "dev", used |-> [r \in {1, 2} |-> {}]]

\* useState(true), useState(null), useState(null)
Modal0 == [loading |-> TRUE, error |-> NULL, traceData |-> NULL]

NotHandled == [path |-> <<>>]

\* maxDepth = 10, the default of fetchResourceAndDependencies
MaxDepth == 10

Pending == [t |-> "pending"]
Failed == [t |-> "error"]

Locals0 ==
    [pc |-> "idle",
     xrData |-> NULL,
     composition |-> NULL,
     compositionRevision |-> NULL,
     compositionRevisions |-> <<>>,
     packages |-> <<>>,
     packageDependencies |-> <<>>,
     processedResources |-> {},
     frames |-> <<>>,
     traceResult |-> [composition |-> NULL, managedResources |-> <<>>],
     nManaged |-> 0,
     sent |-> <<>>,
     result |-> Pending]

\* api.k8sApi({ path, ... }): one more request for the path
Send(sent, path) ==
    IF path \in DOMAIN sent THEN [sent EXCEPT ![path] = @ + 1] ELSE (path :> 1) @@ sent

Count(sent, path) == IF path \in DOMAIN sent THEN sent[path] ELSE 0

(* ------------------------------------------------------------------ *)
(* fetchResourceAndDependencies, up to its first await                 *)
(* ------------------------------------------------------------------ *)

\* a limit that lets one more level through
DepthExceeded(depth) == depth > MaxDepth

\* depth >= maxDepth
DepthReached(depth) == depth >= MaxDepth

\* a lookup that never finds the identity
NeverProcessed(processed, resourceId) == FALSE

\* a lookup in one set that all the invocations share
ProcessedInAnyRun(processed, resourceId) ==
    resourceId \in processed \/ \E q \in DOMAIN inv : resourceId \in inv[q].processedResources

\* processedResources.has(resourceId)
AlreadyProcessed(processed, resourceId) == resourceId \in processed

\* a call that has returned null, with the message it logged; resourceId is ""
\* when the call returned before it computed the identity
Returned(ref, depth, log, resourceId) ==
    [ref |-> ref, depth |-> depth, pc |-> "done", log |-> log, resourceId |-> resourceId,
     path |-> "", resource |-> NULL, events |-> <<>>, kids |-> 0, result |-> NULL]

\* the call id of fetchResourceAndDependencies(ref, depth): L is the invocation
CallFetch(L, id, ref, depth) ==
    IF DepthReached(depth)
    THEN [L EXCEPT !.frames = (id :> Returned(ref, depth, "max depth", "")) @@ @]
    ELSE IF ~RefNameTruthy(ref)
    THEN [L EXCEPT !.frames = (id :> Returned(ref, depth, "invalid reference", "")) @@ @]
    ELSE LET resourceId == Str(ResourceId(ref))
         IN IF AlreadyProcessed(L.processedResources, resourceId)
            THEN [L EXCEPT !.frames =
                      (id :> Returned(ref, depth, "already processed", resourceId)) @@ @]
            ELSE LET path == Str(ResourcePath(ref))
                 IN IF path = ""
                    THEN [L EXCEPT !.processedResources = @ \cup {resourceId},
                                   !.frames =
                                       (id :> Returned(ref, depth, "no path", resourceId)) @@ @]
                    ELSE [L EXCEPT !.processedResources = @ \cup {resourceId},
                                   !.sent = Send(@, path),
                                   !.frames =
                                       (id :> [ref |-> ref, depth |-> depth, pc |-> "fetch",
                                               log |-> "fetching", resourceId |-> resourceId,
                                               path |-> path, resource |-> NULL,
                                               events |-> <<>>, kids |-> 0,
                                               result |-> NULL]) @@ @]

\* refs.map(ref => fetchResourceAndDependencies(ref, depth, maxDepth)), from the
\* i-th reference on: the calls run one after the other, each up to its first await
RECURSIVE CallAll(_, _, _, _, _)
CallAll(L, parent, refs, depth, i) ==
    With(L, LAMBDA l :
        IF i > Len(refs) THEN l
        ELSE CallAll(CallFetch(l, parent \o <<i>>, refs[i], depth), parent, refs, depth, i + 1))

\* the results of the calls a frame made, in the order of the references
Dependencies(frames, id) == [k \in 1..frames[id].kids |-> frames[id \o <<k>>].result]

\* dependencies.filter(Boolean)
ValidDependencies(dependencies) == SelectSeq(dependencies, LAMBDA d : d # NULL)

Joined(frames, id) ==
    /\ frames[id].pc = "deps"
    /\ \A k \in 1..frames[id].kids : frames[id \o <<k>>].pc = "done"

\* await Promise.all(...) of every frame whose calls have all returned, and what
\* follows it in the frame, repeated until no frame can continue
RECURSIVE Settle(_)
Settle(frames) ==
    With(frames, LAMBDA fs :
        IF \E id \in DOMAIN fs : Joined(fs, id)
        THEN LET id == CHOOSE f \in DOMAIN fs : Joined(fs, f)
                 node == EnhancedResource(fs[id].resource,
                                          ValidDependencies(Dependencies(fs, id)),
                                          fs[id].events)
             IN Settle([fs EXCEPT ![id].pc = "done", ![id].log = "returned",
                                  ![id].result = node])
        ELSE fs)

\* after the events of a fetched resource are known: extract the references,
\* call fetchResourceAndDependencies on each and wait for all of them
Expand(L, id, events) ==
    With(L, LAMBDA l :
        IF ExtractThrows(l.frames[id].resource)
        THEN [l EXCEPT !.frames[id].pc = "done", !.frames[id].log = "error",
                       !.frames[id].events = events]
        ELSE With(FilterBoolean(ExtractRefs(l.frames[id].resource)), LAMBDA refs :
                 CallAll([l EXCEPT !.frames[id].pc = "deps", !.frames[id].events = events,
                                   !.frames[id].kids = Len(refs)],
                         id, refs, l.frames[id].depth + 1, 1)))

\* a fetch of a managed reference whose failure ends the invocation with the error
FetchedOrRaise(L, id, fetched) ==
    IF fetched.t # "value"
    THEN [L EXCEPT !.frames[id].pc = "done", !.frames[id].log = "error",
                   !.pc = "done", !.result = Failed]
    ELSE LET L1 == [L EXCEPT !.frames[id].resource = fetched.v]
         IN IF EventsPath(fetched.v) = ""
            THEN Expand(L1, id, <<>>)
            ELSE [L1 EXCEPT !.frames[id].pc = "events",
                            !.sent = Send(@, EventsPath(fetched.v))]

\* after fetchResource(path) of a managed reference: return null, or fetch the events
Fetched(L, id, fetched) ==
    IF fetched.t = "throw"
    THEN [L EXCEPT !.frames[id].pc = "done", !.frames[id].log = "error"]
    ELSE IF fetched.t = "null"
    THEN [L EXCEPT !.frames[id].pc = "done", !.frames[id].log = "no resource"]
    ELSE LET L1 == [L EXCEPT !.frames[id].resource = fetched.v]
         IN IF EventsPath(fetched.v) = ""
            THEN Expand(L1, id, <<>>)
            ELSE [L1 EXCEPT !.frames[id].pc = "events",
                            !.sent = Send(@, EventsPath(fetched.v))]

(* ------------------------------------------------------------------ *)
(* fetchResourceTrace between its awaits.  G = [L, claim]: the locals  *)
(* of the invocation and the claim object it was given.                *)
(* ------------------------------------------------------------------ *)

CompositionsPath == "/apis/apiextensions.crossplane.io/v1/compositions/"
RevisionsPath == "/apis/apiextensions.crossplane.io/v1/compositionrevisions"
ProvidersPath == "/apis/pkg.crossplane.io/v1/providers"
FunctionsPath == "/apis/pkg.crossplane.io/v1/functions"
ConfigurationsPath == "/apis/pkg.crossplane.io/v1/configurations"

\* obj.events = events
SetEvents(obj, events) == [events |-> events] @@ obj

\* a return of the composite without its connection details
FinishPlain(G) ==
    With(G, LAMBDA g :
        [g EXCEPT !.L.pc = "done",
                  !.L.result = [t |-> "trace",
                                composite |-> g.L.xrData,
                                composition |-> g.L.traceResult.composition,
                                managedResources |-> g.L.traceResult.managedResources]])

\* traceResult.composite.connectionDetails = ...; return traceResult
Finish(G) ==
    With(G, LAMBDA g :
        With([connectionDetails |-> ProcessConnectionDetails(g.L.xrData)] @@ g.L.xrData,
             LAMBDA xr :
                [g EXCEPT !.L.pc = "done",
                          !.L.xrData = xr,
                          !.L.result = [t |-> "trace",
                                        composite |-> xr,
                                        composition |-> g.L.traceResult.composition,
                                        managedResources |-> g.L.traceResult.managedResources]]))

\* the events of the claim, of the composite and of the composition, one after the
\* other, from `stage` on, up to the next request that is sent
RECURSIVE TopEvents(_, _)
TopEvents(G, stage) ==
    With(G, LAMBDA g :
        IF stage = "claimEvents"
        THEN IF EventsPath(g.claim) = ""
             THEN TopEvents([g EXCEPT !.claim = SetEvents(@, <<>>)], "compositeEvents")
             ELSE [g EXCEPT !.L.pc = stage, !.L.sent = Send(@, EventsPath(g.claim))]
        ELSE IF stage = "compositeEvents"
        THEN IF EventsPath(g.L.xrData) = ""
             THEN TopEvents([g EXCEPT !.L.xrData = SetEvents(@, <<>>)], "compositionEvents")
             ELSE [g EXCEPT !.L.pc = stage, !.L.sent = Send(@, EventsPath(g.L.xrData))]
        ELSE IF stage = "compositionEvents" /\ g.L.composition # NULL
        THEN IF EventsPath(g.L.composition) = ""
             THEN Finish([g EXCEPT !.L.traceResult.composition = SetEvents(@, <<>>)])
             ELSE [g EXCEPT !.L.pc = stage, !.L.sent = Send(@, EventsPath(g.L.composition))]
        ELSE Finish(g))

AllManagedReturned(L) == \A k \in 1..L.nManaged : L.frames[<<k>>].pc = "done"

\* continue the frames that can continue, then the invocation itself once
\* Promise.all of the managed references is fulfilled
Join(G) ==
    With([G EXCEPT !.L.frames = Settle(@)], LAMBDA g :
        IF g.L.pc = "managed" /\ AllManagedReturned(g.L)
        THEN TopEvents([g EXCEPT !.L.traceResult.managedResources =
                                    ValidDependencies([k \in 1..g.L.nManaged |->
                                                          g.L.frames[<<k>>].result])],
                       "claimEvents")
        ELSE g)

\* build traceResult, collect the managed references of the composite and call
\* fetchResourceAndDependencies(ref) on each (depth 0)
StartManaged(G) ==
    With(G, LAMBDA g :
        With(FilterBoolean(ManagedRefs(g.L.xrData)), LAMBDA refs :
            LET composition ==
                    IF g.L.composition # NULL
                    THEN [compositionRevision |-> g.L.compositionRevision,
                          compositionRevisions |-> g.L.compositionRevisions] @@ g.L.composition
                    ELSE NULL
                L1 == [g.L EXCEPT !.pc = "managed", !.nManaged = Len(refs),
                                  !.traceResult = [composition |-> composition,
                                                   managedResources |-> <<>>]]
            IN Join([g EXCEPT !.L = CallAll(L1, <<>>, refs, 0, 1)])))

\* the package dependencies: providers, then functions, then configurations
StartPackages(G) ==
    [G EXCEPT !.L.pc = "providers", !.L.packages = <<>>, !.L.sent = Send(@, ProvidersPath)]

\* providers?.items || []
ItemsOf(fetched) ==
    IF fetched.t = "value" /\ Has(fetched.v, "items") THEN fetched.v.items ELSE <<>>

\* pkg => ({ ...pkg, dependencies, runtime, packageType })
PackageInfo(pkg) ==
    [dependencies |-> IF Has(pkg, "spec") /\ Has(pkg.spec, "dependencies")
                      THEN pkg.spec.dependencies ELSE <<>>,
     runtime |-> IF Has(pkg, "spec") /\ Has(pkg.spec, "runtime")
                 THEN pkg.spec.runtime ELSE NULL,
     packageType |-> ToLowerCase(pkg.kind)] @@ pkg

\* revisions?.items?.filter(rev => rev.spec.compositionRef.name === name) || []
RevisionsOf(fetched, name) ==
    SelectSeq(ItemsOf(fetched), LAMBDA rev : rev.spec.compositionRef.name = name)

\* a start that asks for a composition whether or not the composite names one
StartCompositionAlways(G) ==
    [G EXCEPT !.L.pc = "composition",
              !.L.sent = Send(@, CompositionsPath
                                  \o (IF Has(G.L.xrData, "spec")
                                         /\ Has(G.L.xrData.spec, "compositionRef")
                                      THEN Str(Interp(G.L.xrData.spec.compositionRef, "name"))
                                      ELSE "undefined"))]

\* after the composite is fetched: the composition, when the composite names one
StartComposition(G) ==
    IF Has(G.L.xrData, "spec") /\ Has(G.L.xrData.spec, "compositionRef")
    THEN [G EXCEPT !.L.pc = "composition",
                   !.L.sent = Send(@, CompositionsPath
                                       \o Str(Interp(G.L.xrData.spec.compositionRef, "name")))]
    ELSE StartPackages(G)

\* compositionRef.name, and `${compositionRef.name}`
CompositionName(L) == Interp(L.xrData.spec.compositionRef, "name")

ResultOrNull(fetched) == IF fetched.t = "value" THEN fetched.v ELSE NULL

(* ------------------------------------------------------------------ *)
(* Cluster contents and claims the invocations are run on.  The        *)
(* variable cluster holds a description of the contents; the entries   *)
(* (path, outcome of the request) follow from it.                      *)
(* ------------------------------------------------------------------ *)

\* bounds of the inputs
NumNodes == 2
MaxEdges == 2
MaxChain == 12
MaxFaults == 2

NodeName(i) == <<"r", Lower[i]>>
NodeUid(i) == <<"u", Lower[i]>>
IsAwsNode(i) == i % 2 = 1

\* the reference to node i: odd nodes are Buckets of an "aws" group, even nodes
\* are namespaced Dbs
NodeRef(i) ==
    IF IsAwsNode(i)
    THEN [kind |-> <<"B","u","c","k","e","t">>, apiVersion |-> <<"s","3",".","a","w","s",".","i","o","/","v","1">>, name |-> NodeName(i)]
    ELSE [kind |-> <<"D","b">>, apiVersion |-> <<"e","x",".","i","o","/","v","1">>, namespace |-> <<"n","s">>,
          name |-> NodeName(i)]

\* where the cluster serves node i and its events
NodePath(i) ==
    IF IsAwsNode(i)
    THEN "/apis/s3.aws.io/v1/buckets/" \o Str(NodeName(i))
    ELSE "/apis/ex.io/v1/namespaces/ns/dbs/" \o Str(NodeName(i))

NodeEventsPath(i) ==
    IF IsAwsNode(i)
    THEN "/api/v1/events?fieldSelector=involvedObject.name=" \o Str(NodeName(i))
         \o ",involvedObject.kind=Bucket,involvedObject.uid=" \o Str(NodeUid(i))
    ELSE "/api/v1/namespaces/ns/events?fieldSelector=involvedObject.name=" \o Str(NodeName(i))
         \o ",involvedObject.kind=Db,involvedObject.uid=" \o Str(NodeUid(i))

Condition(type, status) == [type |-> type, status |-> status]

\* the status a node can have: none, and lists of conditions (one per type)
ReadyStatus == <<"conditions", Condition("Ready", "True"), Condition("Synced", "True")>>
NotReadyStatus == <<"conditions", Condition("Ready", "False"), Condition("Synced", "True")>>

StatusOptions ==
    { <<"none">>,
      <<"conditions">>,
      ReadyStatus,
      NotReadyStatus,
      <<"conditions", Condition("Synced", "False"), Condition("Ready", "True")>>,
      <<"conditions", Condition("Synced", "True")>> }

DefaultStatus(i) == IF i % 3 = 0 THEN NotReadyStatus ELSE ReadyStatus

\* the object of node i with the references refs in spec.resourceRefs
NodeObject(i, refs, status) ==
    LET metadata == IF IsAwsNode(i)
                    THEN [name |-> NodeName(i), uid |-> NodeUid(i)]
                    ELSE [name |-> NodeName(i), uid |-> NodeUid(i), namespace |-> <<"n","s">>]
        object == [kind |-> NodeRef(i).kind, apiVersion |-> NodeRef(i).apiVersion,
                   metadata |-> metadata, spec |-> [resourceRefs |-> refs]]
    IN IF status[1] = "none" THEN object
       ELSE [status |-> [conditions |-> Tail(status)]] @@ object

\* an object without its spec
WithoutSpec(object) == [f \in DOMAIN object \ {"spec"} |-> object[f]]

Event(reason) == [reason |-> reason, type |-> "Normal"]
EventList(reason) == DataResponse([items |-> <<Event(reason)>>])

XrRef == [kind |-> <<"X","D","b">>, apiVersion |-> <<"e","x",".","i","o","/","v","1">>, name |-> <<"x","r">>]
XrPath == "/apis/ex.io/v1/xdbs/xr"
XrEventsPath ==
    "/api/v1/events?fieldSelector=involvedObject.name=xr,involvedObject.kind=XDb,involvedObject.uid=ux"
ClaimEventsPath ==
    "/api/v1/namespaces/ns/events?fieldSelector=involvedObject.name=c,involvedObject.kind=DbClaim,involvedObject.uid=uc"
CompositionEventsPath ==
    "/api/v1/events?fieldSelector=involvedObject.name=cmp,involvedObject.kind=Composition,involvedObject.uid=um"

TheClaim ==
    [kind |-> <<"D","b","C","l","a","i","m">>, apiVersion |-> <<"e","x",".","i","o","/","v","1">>,
     metadata |-> [name |-> <<"c">>, namespace |-> <<"n","s">>, uid |-> <<"u","c">>],
     spec |-> [resourceRef |-> XrRef]]

\* a claim whose composite is of a kind that ends in "s", and the path at which
\* the cluster serves that composite
RedisClaim ==
    [TheClaim EXCEPT !.spec = [resourceRef |-> [kind |-> <<"X","R","e","d","i","s">>,
                                                apiVersion |-> <<"e","x",".","i","o","/","v","1">>,
                                                name |-> <<"x","r">>]]]
RedisPath == "/apis/ex.io/v1/xredis/xr"

\* the claims a caller may pass: none, and claims with and without a composite reference
Claims ==
    { NULL,
      TheClaim,
      [f \in {"kind", "apiVersion", "metadata"} |-> TheClaim[f]],
      [TheClaim EXCEPT !.spec = [compositionRef |-> [name |-> <<"c","m","p">>]]],
      [TheClaim EXCEPT !.spec = [resourceRef |-> [apiVersion |-> <<"e","x",".","i","o","/","v","1">>,
                                                  name |-> <<"x","r">>]]],
      RedisClaim }

\* the composite: its managed references in spec.resourceRefs, repeated in
\* status.resourceRefs when `mirror`
XrObject(refs, mirror) ==
    LET object == [kind |-> <<"X","D","b">>, apiVersion |-> <<"e","x",".","i","o","/","v","1">>,
                   metadata |-> [name |-> <<"x","r">>, uid |-> <<"u","x">>],
                   spec |-> [resourceRefs |-> refs,
                             compositionRef |-> [name |-> <<"c","m","p">>]]]
    IN IF mirror
       THEN [status |-> [resourceRefs |-> refs,
                         conditions |-> <<Condition("Ready", "True")>>]] @@ object
       ELSE object

TheComposition ==
    [kind |-> <<"C","o","m","p","o","s","i","t","i","o","n">>, metadata |-> [name |-> <<"c","m","p">>, uid |-> <<"u","m">>]]

Revision(name, of) ==
    [kind |-> <<"C","o","m","p","o","s","i","t","i","o","n","R","e","v","i","s","i","o","n">>, metadata |-> [name |-> name],
     spec |-> [compositionRef |-> [name |-> of]]]

Package(kind, name) ==
    [kind |-> kind, metadata |-> [name |-> name], spec |-> [dependencies |-> <<name>>]]

\* the part of the cluster that does not depend on the managed resources
FixedEntries(xr) ==
    { <<XrPath, DataResponse(xr)>>,
      <<RedisPath, DataResponse([xr EXCEPT !.kind = <<"X","R","e","d","i","s">>])>>,
      <<XrEventsPath, EventList(<<"x","r">>)>>,
      <<ClaimEventsPath, EventList(<<"c","l","a","i","m">>)>>,
      <<CompositionEventsPath, EventList(<<"c","m","p">>)>>,
      <<"/apis/apiextensions.crossplane.io/v1/compositions/cmp", DataResponse(TheComposition)>>,
      <<"/apis/apiextensions.crossplane.io/v1/compositionrevisions",
        DataResponse([items |-> <<Revision(<<"c","m","p","-","1">>, <<"c","m","p">>), Revision(<<"o","t","h","-","1">>, <<"o","t","h">>)>>])>>,
      <<"/apis/apiextensions.crossplane.io/v1/compositionrevisions/cmp",
        DataResponse(Revision(<<"c","m","p">>, <<"c","m","p">>))>>,
      <<"/apis/pkg.crossplane.io/v1/providers",
        DataResponse([items |-> <<Package(<<"P","r","o","v","i","d","e","r">>, <<"p">>)>>])>>,
      <<"/apis/pkg.crossplane.io/v1/functions",
        DataResponse([items |-> <<Package(<<"F","u","n","c","t","i","o","n">>, <<"f">>)>>])>>,
      <<"/apis/pkg.crossplane.io/v1/configurations",
        DataResponse([kind |-> <<"C","o","n","f","i","g","u","r","a","t","i","o","n","L","i","s","t">>])>> }

NodeEntries(nodes, object) ==
    { <<NodePath(i), DataResponse(object[i])>> : i \in nodes }
    \cup { <<NodeEventsPath(i), EventList(NodeName(i))>> : i \in nodes }

\* the ascending sequence of a set of numbers
RECURSIVE Ascending(_)
Ascending(S) ==
    With(S, LAMBDA rest :
        IF rest = {} THEN <<>>
        ELSE LET m == CHOOSE x \in rest : \A y \in rest : x <= y
             IN <<m>> \o Ascending(rest \ {m}))

RefsTo(S) == LET order == Ascending(S) IN [k \in DOMAIN order |-> NodeRef(order[k])]

\* (A) every graph of at most MaxEdges references among NumNodes nodes, the
\*     composite referencing the first k nodes
EdgeSets == {E \in SUBSET ((1..NumNodes) \X (1..NumNodes)) : Cardinality(E) <= MaxEdges}

GraphClusters ==
    { [family |-> "graph", edges |-> E, k |-> k, mirror |-> mirror]
      : E \in EdgeSets, k \in 1..NumNodes, mirror \in BOOLEAN }

GraphObject(d) ==
    [i \in 1..NumNodes |->
        NodeObject(i, RefsTo({j \in 1..NumNodes : <<i, j>> \in d.edges}), DefaultStatus(i))]

\* (B) a chain 1 -> 2 -> ... -> len, and, when `to` > 0, one more node, referenced
\*     by the composite too, that references node `to` of the chain
ChainClusters ==
    {d \in [family : {"chain"}, len : 1..MaxChain, to : 0..MaxChain] : d.to <= d.len}

ChainObject(d) ==
    [i \in 1..(d.len + 1) |->
        NodeObject(i,
                   IF i < d.len THEN <<NodeRef(i + 1)>>
                   ELSE IF i = d.len + 1 /\ d.to > 0 THEN <<NodeRef(d.to)>>
                   ELSE <<>>,
                   ReadyStatus)]

\* (C) the diamond xr -> {1, 2}, 1 -> 3, 2 -> 3, with at most MaxFaults paths
\*     that fail, each in one of the ways a request can fail
DiamondObject ==
    [i \in 1..3 |-> NodeObject(i, IF i < 3 THEN <<NodeRef(3)>> ELSE <<>>, DefaultStatus(i))]

DiamondEntries ==
    FixedEntries(XrObject(<<NodeRef(1), NodeRef(2)>>, FALSE)) \cup NodeEntries(1..3, DiamondObject)

FaultPaths == {e[1] : e \in DiamondEntries}

\* the ways a request can fail: the handler answers with the error of a 404 or of
\* a 500, the call is rejected with a 404, or the object served has no spec
FaultModes == {"error 404", "error 500", "reject 404", "no spec"}

FaultClusters ==
    { [family |-> "fault", failing |-> P, mode |-> m]
      : P \in {Q \in SUBSET FaultPaths : Cardinality(Q) <= MaxFaults}, m \in FaultModes }

NoFaults == [family |-> "fault", failing |-> {}, mode |-> "error 404"]

FaultOutcome(mode, entry) ==
    IF mode = "error 500" THEN ErrorResponse(StatusServerError)
    ELSE IF mode = "reject 404" THEN Rejection(StatusNotFound)
    ELSE IF mode = "no spec" /\ entry[1] \in {NodePath(i) : i \in 1..3}
    THEN DataResponse(WithoutSpec(entry[2].response.data))
    ELSE ErrorResponse(StatusNotFound)

\* (D) a resource with two dependencies of every status
StatusClusters ==
    { [family |-> "status", s2 |-> s2, s3 |-> s3] : s2 \in StatusOptions, s3 \in StatusOptions }

StatusObject(d) ==
    [i \in 1..3 |->
        NodeObject(i, IF i = 1 THEN <<NodeRef(2), NodeRef(3)>> ELSE <<>>,
                   IF i = 2 THEN d.s2 ELSE IF i = 3 THEN d.s3 ELSE ReadyStatus)]

\* (E) the composite references 1, 2 and 3, and 2 references 4; the request for
\*     node `hung` is never answered (0: every request is answered)
HangClusters == { [family |-> "hang", hung |-> i] : i \in 0..4 }

HangObject ==
    [i \in 1..4 |-> NodeObject(i, IF i = 2 THEN <<NodeRef(4)>> ELSE <<>>, ReadyStatus)]

\* (H) references in every location an object can hold them, each to its own
\*     resource (1 to 6, 5 by the path in a connection detail): in the composite
\*     (`at` = "composite"), or in resource 7, the one the composite references
OrderClusters == { [family |-> "order", at |-> a] : a \in {"composite", "resource"} }

EveryLocation(object) ==
    [status |-> [resourceRefs |-> <<NodeRef(2)>>,
                 resources |-> <<NodeRef(3)>>,
                 resource |-> [refs |-> <<NodeRef(4)>>],
                 connectionDetails |->
                     << [type |-> "Secret", name |-> <<"p","w">>, value |-> <<"x">>],
                        [type |-> "Reference", name |-> <<"r","e","f">>,
                         value |-> <<"/","a","p","i","s","/","s","3",".","a","w","s",".","i","o","/","v","1","/","b","u","c","k","e","t","s","/","r","e">>] >>],
     references |-> <<NodeRef(6)>>] @@ object

OrderObject(d) ==
    [i \in 1..7 |->
        IF i = 7 /\ d.at = "resource"
        THEN EveryLocation(NodeObject(7, <<NodeRef(1)>>, <<"none">>))
        ELSE NodeObject(i, <<>>, ReadyStatus)]

OrderComposite(d) ==
    IF d.at = "composite"
    THEN EveryLocation(XrObject(<<NodeRef(1)>>, FALSE))
    ELSE XrObject(<<NodeRef(7)>>, FALSE)

\* (I) a reference that names no resource, followed by one that does: among the
\*     references of the composite, or among those of resource 1
BadRefs ==
    << [kind |-> <<"D","b">>, apiVersion |-> <<"e","x",".","i","o","/","v","1">>, namespace |-> <<"n","s">>],
       [apiVersion |-> <<"e","x",".","i","o","/","v","1">>, name |-> <<"r","x">>],
       [kind |-> <<"D","b">>, name |-> <<"r","x">>],
       [str |-> <<>>],
       [kind |-> <<"D","b">>, apiVersion |-> <<"e","x",".","i","o","/","v","1">>, name |-> <<>>] >>

SkipClusters ==
    { [family |-> "skip", bad |-> b, at |-> a]
      : b \in DOMAIN BadRefs, a \in {"composite", "resource"} }

SkipObject(d) ==
    [i \in 1..2 |->
        NodeObject(i, IF i = 1 /\ d.at = "resource" THEN <<BadRefs[d.bad], NodeRef(2)>>
                      ELSE <<>>,
                   ReadyStatus)]

SkipComposite(d) ==
    IF d.at = "composite"
    THEN XrObject(<<BadRefs[d.bad], NodeRef(1)>>, FALSE)
    ELSE XrObject(<<NodeRef(1)>>, FALSE)

\* (J) two references of the composite that resolve to one path: a Bucket of an
\*     "aws" group without and with a namespace, or a Bucket and its path as a
\*     string (`twin`); or a resource that references the composite back (`back`)
TwinRefs ==
    [aws |-> <<NodeRef(1), [NodeRef(1) EXCEPT !.name = NodeName(1)] @@ [namespace |-> <<"n","s">>]>>,
     path |-> <<NodeRef(1), [str |-> <<"/","a","p","i","s","/","s","3",".","a","w","s",".","i","o","/","v","1","/","b","u","c","k","e","t","s","/","r","a">>]>>]

AliasClusters ==
    { [family |-> "alias", kind |-> k] : k \in {"aws", "path", "back"} }

AliasObject(d) ==
    [i \in 1..1 |-> NodeObject(i, IF d.kind = "back" THEN <<XrRef>> ELSE <<>>, ReadyStatus)]

AliasComposite(d) ==
    XrObject(IF d.kind = "back" THEN <<NodeRef(1)>> ELSE TwinRefs[d.kind], FALSE)

\* (G) a composite that names no composition, with `k` managed resources
BareClusters == { [family |-> "bare", k |-> k] : k \in 0..1 }

Bare(xr) == [xr EXCEPT !.spec = [resourceRefs |-> xr.spec.resourceRefs]]

BareObject == [i \in 1..1 |-> NodeObject(i, <<>>, ReadyStatus)]

\* (F) the composite references one resource, given by each of the forms a
\*     reference can take; the cluster serves the resource at `served`
RefForms ==
    << [ref |-> [kind |-> <<"B","u","c","k","e","t">>, apiVersion |-> <<"s","3",".","a","w","s",".","c","r","o","s","s","p","l","a","n","e",".","i","o","/","v","1","b","e","t","a","1">>,
                 name |-> <<"b","1">>],
        served |-> "/apis/s3.aws.crossplane.io/v1beta1/buckets/b1",
        never |-> {"/apis/s3.aws.crossplane.io/v1beta1/namespaces/default/buckets/b1"}],
       [ref |-> [kind |-> <<"B","u","c","k","e","t">>, apiVersion |-> <<"s","3",".","a","w","s",".","c","r","o","s","s","p","l","a","n","e",".","i","o","/","v","1","b","e","t","a","1">>,
                 namespace |-> <<"n","s">>, name |-> <<"b","1">>],
        served |-> "/apis/s3.aws.crossplane.io/v1beta1/buckets/b1",
        never |-> {"/apis/s3.aws.crossplane.io/v1beta1/namespaces/ns/buckets/b1"}],
       [ref |-> [kind |-> <<"D","B","I","n","s","t","a","n","c","e">>, apiVersion |-> <<"r","d","s",".","a","w","s",".","i","o","/","v","1">>,
                 namespace |-> <<"n","s">>, name |-> <<"b","1">>],
        served |-> "/apis/rds.aws.io/v1/dbinstances/b1",
        never |-> {"/apis/rds.aws.io/v1/namespaces/ns/dbinstances/b1",
                   "/apis/rds.aws.io/v1/DBInstances/b1"}],
       [ref |-> [kind |-> <<"D","b">>, apiVersion |-> <<"e","x",".","i","o","/","v","1">>, namespace |-> <<"n","s">>,
                 name |-> <<"b","1">>],
        served |-> "/apis/ex.io/v1/namespaces/ns/dbs/b1",
        never |-> {"/apis/ex.io/v1/dbs/b1"}],
       [ref |-> [kind |-> <<"D","b">>, apiVersion |-> <<"e","x",".","i","o","/","v","1">>, name |-> <<"b","1">>],
        served |-> "/apis/ex.io/v1/dbs/b1",
        never |-> {"/apis/ex.io/v1/namespaces/default/dbs/b1",
                   "/apis/ex.io/v1/namespaces/undefined/dbs/b1"}],
       [ref |-> [kind |-> <<"A","d","d","r","e","s","s">>, apiVersion |-> <<"e","x",".","i","o","/","v","1">>, namespace |-> <<"n","s">>,
                 name |-> <<"b","1">>],
        served |-> "/apis/ex.io/v1/namespaces/ns/address/b1",
        never |-> {"/apis/ex.io/v1/address/b1", "/apis/ex.io/v1/namespaces/ns/addresss/b1"}],
       [ref |-> [kind |-> <<"A","d","d","r","e","s","s">>, apiVersion |-> <<"e","c","2",".","a","w","s",".","i","o","/","v","1">>, name |-> <<"b","1">>],
        served |-> "/apis/ec2.aws.io/v1/address/b1",
        never |-> {"/apis/ec2.aws.io/v1/addresss/b1"}],
       [ref |-> [str |-> <<"/","a","p","i","/","v","1","/","n","a","m","e","s","p","a","c","e","s","/","n","s","/","s","e","c","r","e","t","s","/","b","1">>],
        served |-> "/api/v1/namespaces/ns/secrets/b1",
        never |-> {"/api/v1/secrets/b1"}] >>

\* the forms whose API group contains "aws", and those naming a kind and an
\* apiVersion of another group
AwsForms == {1, 2, 3, 7}
OtherForms == {4, 5, 6}
StringForms == {8}

RefClusters == { [family |-> "refs", form |-> i] : i \in DOMAIN RefForms }

\* the object served for a form: the resource the reference names
RefObject(form) ==
    LET ref == form.ref
        metadata == IF Has(ref, "namespace")
                    THEN [name |-> <<"b","1">>, uid |-> <<"u","1">>, namespace |-> ref.namespace]
                    ELSE [name |-> <<"b","1">>, uid |-> <<"u","1">>]
    IN IF IsStringRef(ref)
       THEN [kind |-> <<"S","e","c","r","e","t">>, apiVersion |-> <<"v","1">>, metadata |-> metadata,
             spec |-> [resourceRefs |-> <<>>]]
       ELSE [kind |-> ref.kind, apiVersion |-> ref.apiVersion, metadata |-> metadata,
             spec |-> [resourceRefs |-> <<>>]]

Clusters ==
    GraphClusters \cup ChainClusters \cup FaultClusters \cup StatusClusters \cup RefClusters
    \cup BareClusters \cup OrderClusters \cup SkipClusters \cup AliasClusters

\* the entries of a cluster: <<path, outcome of a request for the path>>
ClusterEntries(d) ==
    IF d.family = "graph"
    THEN FixedEntries(XrObject(RefsTo(1..d.k), d.mirror))
         \cup NodeEntries(1..NumNodes, GraphObject(d))
    ELSE IF d.family = "chain"
    THEN FixedEntries(XrObject(IF d.to > 0 THEN <<NodeRef(1), NodeRef(d.len + 1)>>
                                           ELSE <<NodeRef(1)>>, FALSE))
         \cup NodeEntries(1..(d.len + 1), ChainObject(d))
    ELSE IF d.family = "status"
    THEN FixedEntries(XrObject(<<NodeRef(1)>>, FALSE)) \cup NodeEntries(1..3, StatusObject(d))
    ELSE IF d.family = "refs"
    THEN FixedEntries(XrObject(<<RefForms[d.form].ref>>, FALSE))
         \cup {<<RefForms[d.form].served, DataResponse(RefObject(RefForms[d.form]))>>}
    ELSE IF d.family = "order"
    THEN FixedEntries(OrderComposite(d)) \cup NodeEntries(1..7, OrderObject(d))
    ELSE IF d.family = "skip"
    THEN FixedEntries(SkipComposite(d)) \cup NodeEntries(1..2, SkipObject(d))
    ELSE IF d.family = "alias"
    THEN FixedEntries(AliasComposite(d)) \cup NodeEntries(1..1, AliasObject(d))
    ELSE IF d.family = "bare"
    THEN FixedEntries(Bare(XrObject(RefsTo(1..d.k), FALSE))) \cup NodeEntries(1..1, BareObject)
    ELSE IF d.family = "hang"
    THEN FixedEntries(XrObject(<<NodeRef(1), NodeRef(2), NodeRef(3)>>, FALSE))
         \cup NodeEntries(1..4, HangObject)
    ELSE { IF e[1] \in d.failing THEN <<e[1], FaultOutcome(d.mode, e)>> ELSE e
           : e \in DiamondEntries }

\* what the k8s-api handler answers for a path: the entry of the path; a path the
\* cluster does not serve is answered with the error of a 404
Gateway(d, path) ==
    With(path, LAMBDA p :
        LET served == {e \in ClusterEntries(d) : e[1] = p}
        IN IF served = {} THEN ErrorResponse(StatusNotFound)
           ELSE (CHOOSE e \in served : TRUE)[2])

\* the request for the path is never answered
Hangs(d, path) == d.family = "hang" /\ d.hung > 0 /\ path = NodePath(d.hung)

(* ------------------------------------------------------------------ *)
(* Actions: the call of fetchResourceTrace and one action per answer   *)
(* of the gateway the invocation is waiting for.  An action runs the   *)
(* code from the await that the answer resumes to the next awaits.     *)
(* ------------------------------------------------------------------ *)

\* TraceModal.fetchTrace around the call r: setLoading(true) and setError(null)
\* when it is made; setTraceData or setError, then setLoading(false), when it ends
ModalAfter(r, L) ==
    LET called == IF inv[r].pc = "idle" /\ L.pc # "idle"
                  THEN [modal EXCEPT !.loading = TRUE, !.error = NULL]
                  ELSE modal
    IN IF inv[r].pc # "done" /\ L.pc = "done"
       THEN IF L.result = Failed
            THEN [called EXCEPT !.error = "error", !.loading = FALSE]
            ELSE [called EXCEPT !.traceData = L.result, !.loading = FALSE]
       ELSE called

\* the handler serves a request in the context that is current when the request
\* is sent
KubeAfter(r, L) ==
    IF L.sent # inv[r].sent
    THEN [kube EXCEPT !.used[r] = @ \cup {kube.current}]
    ELSE kube

Apply(r, G) ==
    \E g \in {G} :
        /\ inv' = [inv EXCEPT ![r] = g.L]
        /\ claim' = g.claim
        /\ kube' = KubeAfter(r, g.L)
        /\ modal' = ModalAfter(r, g.L)
        /\ UNCHANGED <<cluster, scope, handled>>

This(r) == [L |-> inv[r], claim |-> claim]

\* await fetchResource(path)
Answer(path) == FetchResource(Gateway(cluster, path))

\* a call that returns null for a claim without a composite reference
StartReturnsNull(r) ==
    /\ inv[r].pc = "idle"
    /\ \A q \in scope : q < r => inv[q].pc = "done"
    /\ IF claim # NULL /\ Has(claim, "spec") /\ Has(claim.spec, "resourceRef")
          /\ Has(claim.spec.resourceRef, "kind")
       THEN Apply(r, [This(r) EXCEPT !.L.pc = "composite",
                                     !.L.sent = Send(@, Str(CompositePath(claim.spec.resourceRef)))])
       ELSE Apply(r, [This(r) EXCEPT !.L.pc = "done", !.L.result = [t |-> "null"]])

\* fetchResourceTrace(claim) up to the fetch of the composite; the invocations are
\* numbered in the order in which they are called
Call(r) ==
    /\ inv[r].pc = "idle"
    /\ \A q \in scope : q < r => inv[q].pc # "idle"
    /\ IF claim = NULL
       THEN Apply(r, [This(r) EXCEPT !.L.pc = "done", !.L.result = [t |-> "null"]])
       ELSE IF ~(Has(claim, "spec") /\ Has(claim.spec, "resourceRef"))
       THEN Apply(r, [This(r) EXCEPT !.L.pc = "done", !.L.result = Failed])
       ELSE IF ~Has(claim.spec.resourceRef, "kind")
       THEN Apply(r, [This(r) EXCEPT !.L.pc = "done", !.L.result = Failed])
       ELSE Apply(r, [This(r) EXCEPT !.L.pc = "composite",
                                     !.L.sent = Send(@, Str(CompositePath(claim.spec.resourceRef)))])

\* a caller that awaits a trace before it asks for the next one
Start(r) ==
    /\ \A q \in scope : q < r => inv[q].pc = "done"
    /\ Call(r)

\* a composite fetch that goes on to the packages when the composite is not found
CompositeRespGoesOn(r) ==
    /\ inv[r].pc = "composite"
    /\ \E fetched \in {Answer(Str(CompositePath(claim.spec.resourceRef)))} :
          IF fetched.t = "value"
          THEN Apply(r, StartComposition([This(r) EXCEPT !.L.xrData = fetched.v]))
          ELSE Apply(r, StartPackages(This(r)))

\* const xrData = await fetchResource(xrPath)
CompositeResp(r) ==
    /\ inv[r].pc = "composite"
    /\ \E fetched \in {Answer(Str(CompositePath(claim.spec.resourceRef)))} :
          IF fetched.t = "value"
          THEN Apply(r, StartComposition([This(r) EXCEPT !.L.xrData = fetched.v]))
          ELSE Apply(r, [This(r) EXCEPT !.L.pc = "done", !.L.result = Failed])

\* composition = await fetchResource(compositionPath)
CompositionResp(r) ==
    /\ inv[r].pc = "composition"
    /\ \E fetched \in {Answer(CompositionsPath \o Str(CompositionName(inv[r])))} :
          IF fetched.t = "throw"
          THEN Apply(r, StartPackages(This(r)))
          ELSE Apply(r, [This(r) EXCEPT !.L.composition = ResultOrNull(fetched),
                                        !.L.pc = "revisions",
                                        !.L.sent = Send(@, RevisionsPath)])

\* a revisions fetch whose failure drops the composition that was fetched
RevisionsRespOmits(r) ==
    /\ inv[r].pc = "revisions"
    /\ \E fetched \in {Answer(RevisionsPath)} :
          IF fetched.t = "throw"
          THEN Apply(r, StartPackages([This(r) EXCEPT !.L.composition = NULL]))
          ELSE Apply(r, [This(r) EXCEPT
                  !.L.compositionRevisions = RevisionsOf(fetched, CompositionName(inv[r])),
                  !.L.pc = "revision",
                  !.L.sent = Send(@, RevisionsPath \o "/" \o Str(CompositionName(inv[r])))])

\* const revisions = await fetchResource(revisionsPath)
RevisionsResp(r) ==
    /\ inv[r].pc = "revisions"
    /\ \E fetched \in {Answer(RevisionsPath)} :
          IF fetched.t = "throw"
          THEN Apply(r, StartPackages(This(r)))
          ELSE Apply(r, [This(r) EXCEPT
                  !.L.compositionRevisions = RevisionsOf(fetched, CompositionName(inv[r])),
                  !.L.pc = "revision",
                  !.L.sent = Send(@, RevisionsPath \o "/" \o Str(CompositionName(inv[r])))])

\* compositionRevision = await fetchResource(revisionPath)
RevisionResp(r) ==
    /\ inv[r].pc = "revision"
    /\ \E fetched \in {Answer(RevisionsPath \o "/" \o Str(CompositionName(inv[r])))} :
          IF fetched.t = "throw"
          THEN Apply(r, StartPackages(This(r)))
          ELSE Apply(r, StartPackages([This(r) EXCEPT
                  !.L.compositionRevision = ResultOrNull(fetched)]))

\* const providers = await fetchResource('/apis/pkg.crossplane.io/v1/providers')
ProvidersResp(r) ==
    /\ inv[r].pc = "providers"
    /\ \E fetched \in {Answer(ProvidersPath)} :
          IF fetched.t = "throw"
          THEN Apply(r, StartManaged(This(r)))
          ELSE Apply(r, [This(r) EXCEPT !.L.packages = ItemsOf(fetched),
                                        !.L.pc = "functions",
                                        !.L.sent = Send(@, FunctionsPath)])

\* const functions = await fetchResource('/apis/pkg.crossplane.io/v1/functions')
FunctionsResp(r) ==
    /\ inv[r].pc = "functions"
    /\ \E fetched \in {Answer(FunctionsPath)} :
          IF fetched.t = "throw"
          THEN Apply(r, StartManaged(This(r)))
          ELSE Apply(r, [This(r) EXCEPT !.L.packages = @ \o ItemsOf(fetched),
                                        !.L.pc = "configurations",
                                        !.L.sent = Send(@, ConfigurationsPath)])

\* const configurations = await fetchResource(...); packageDependencies = [...].map(...)
ConfigurationsResp(r) ==
    /\ inv[r].pc = "configurations"
    /\ \E fetched \in {Answer(ConfigurationsPath)} :
          IF fetched.t = "throw"
          THEN Apply(r, StartManaged(This(r)))
          ELSE LET all == inv[r].packages \o ItemsOf(fetched)
               IN Apply(r, StartManaged([This(r) EXCEPT
                       !.L.packageDependencies = [i \in DOMAIN all |-> PackageInfo(all[i])]]))

\* a fetch that is answered only after the fetches of the references listed
\* before it, under the same parent, have returned
ManagedRespInOrder(r, id) ==
    /\ inv[r].pc = "managed"
    /\ inv[r].frames[id].pc = "fetch"
    /\ ~Hangs(cluster, inv[r].frames[id].path)
    /\ \A k \in 1..(id[Len(id)] - 1) :
          inv[r].frames[SubSeq(id, 1, Len(id) - 1) \o <<k>>].pc = "done"
    /\ \E fetched \in {Answer(inv[r].frames[id].path)} :
          Apply(r, Join([This(r) EXCEPT !.L = Fetched(@, id, fetched)]))

\* const resource = await fetchResource(path), in the call `id`
ManagedResp(r, id) ==
    /\ inv[r].pc = "managed"
    /\ inv[r].frames[id].pc = "fetch"
    /\ ~Hangs(cluster, inv[r].frames[id].path)
    /\ \E fetched \in {Answer(inv[r].frames[id].path)} :
          Apply(r, Join([This(r) EXCEPT !.L = Fetched(@, id, fetched)]))

\* an events fetch whose failure makes the call `id` return null
ManagedEventsRespAborts(r, id) ==
    /\ inv[r].pc = "managed"
    /\ inv[r].frames[id].pc = "events"
    /\ \E fetched \in {Answer(EventsPath(inv[r].frames[id].resource))} :
          IF fetched.t # "value"
          THEN Apply(r, Join([This(r) EXCEPT !.L.frames[id].pc = "done",
                                             !.L.frames[id].log = "error"]))
          ELSE Apply(r, Join([This(r) EXCEPT !.L = Expand(@, id, EventsOf(fetched))]))

\* const events = await fetchResourceEvents(resource), in the call `id`
ManagedEventsResp(r, id) ==
    /\ inv[r].pc = "managed"
    /\ inv[r].frames[id].pc = "events"
    /\ \E fetched \in {Answer(EventsPath(inv[r].frames[id].resource))} :
          Apply(r, Join([This(r) EXCEPT !.L = Expand(@, id, EventsOf(fetched))]))

\* traceResult.claim.events = await fetchResourceEvents(claim)
ClaimEventsResp(r) ==
    /\ inv[r].pc = "claimEvents"
    /\ Apply(r, TopEvents([This(r) EXCEPT
                             !.claim = SetEvents(@, EventsOf(Answer(EventsPath(claim))))],
                          "compositeEvents"))

\* traceResult.composite.events = await fetchResourceEvents(xrData)
CompositeEventsResp(r) ==
    /\ inv[r].pc = "compositeEvents"
    /\ Apply(r, TopEvents([This(r) EXCEPT
                             !.L.xrData = SetEvents(@, EventsOf(Answer(EventsPath(inv[r].xrData))))],
                          "compositionEvents"))

\* traceResult.composition.events = await fetchResourceEvents(composition)
CompositionEventsResp(r) ==
    /\ inv[r].pc = "compositionEvents"
    /\ Apply(r, Finish([This(r) EXCEPT
                          !.L.traceResult.composition =
                              SetEvents(@, EventsOf(Answer(EventsPath(inv[r].composition))))]))

\* ipcMain.handle('set-context'): kubeConfig.setCurrentContext(contextName)
SetContext(contextName) ==
    /\ kube' = [kube EXCEPT !.current = contextName]
    /\ UNCHANGED <<claim, cluster, scope, inv, modal, handled>>

\* ipcMain.handle('k8s-api') on a request: no call without a current context
K8sApi(asked, method) ==
    /\ handled' = [asked |-> asked, path |-> asked.path, method |-> method,
                   call |-> IF kube.current = ""
                            THEN [api |-> "throw"]
                            ELSE ClientCall(asked.path, method)]
    /\ UNCHANGED <<claim, cluster, scope, inv, kube, modal>>

(* ------------------------------------------------------------------ *)
(* Specifications                                                      *)
(* ------------------------------------------------------------------ *)

Runs == {1, 2}

\* one invocation, on every cluster with the claim that references the composite,
\* and on the diamond with every claim
Init ==
    /\ \/ claim = TheClaim /\ cluster \in Clusters
       \/ claim \in Claims /\ cluster = NoFaults
    /\ scope = {1}
    /\ inv = [r \in Runs |-> Locals0]
    /\ kube = Kube0
    /\ modal = Modal0
    /\ handled = NotHandled

CallIds(r) == {id \in DOMAIN inv[r].frames : inv[r].frames[id].pc \in {"fetch", "events"}}

Next ==
    \E r \in scope :
        \/ Start(r)
        \/ CompositeResp(r)
        \/ CompositionResp(r)
        \/ RevisionsResp(r)
        \/ RevisionResp(r)
        \/ ProvidersResp(r)
        \/ FunctionsResp(r)
        \/ ConfigurationsResp(r)
        \/ \E id \in CallIds(r) : ManagedResp(r, id)
        \/ \E id \in CallIds(r) : ManagedEventsResp(r, id)
        \/ ClaimEventsResp(r)
        \/ CompositeEventsResp(r)
        \/ CompositionEventsResp(r)

Spec == Init /\ [][Next]_vars

\* the claim traced twice, one trace after the other, on every chain
InitTwo ==
    /\ claim = TheClaim
    /\ cluster \in ChainClusters
    /\ scope = {1, 2}
    /\ inv = [r \in Runs |-> Locals0]
    /\ kube = Kube0
    /\ modal = Modal0
    /\ handled = NotHandled

SpecTwo == InitTwo /\ [][Next]_vars

\* one invocation on every graph, cycles included, and on every plain chain, where
\* every request is answered: a step that can be taken is eventually taken
InitFair ==
    /\ claim = TheClaim
    /\ cluster \in GraphClusters \cup {d \in ChainClusters : d.to = 0}
    /\ scope = {1}
    /\ inv = [r \in Runs |-> Locals0]
    /\ kube = Kube0
    /\ modal = Modal0
    /\ handled = NotHandled

FairSpec == InitFair /\ [][Next]_vars /\ WF_vars(Next)

\* one invocation on a cluster where at most one request hangs and every other
\* request is answered
InitHang ==
    /\ claim = TheClaim
    /\ cluster \in HangClusters
    /\ scope = {1}
    /\ inv = [r \in Runs |-> Locals0]
    /\ kube = Kube0
    /\ modal = Modal0
    /\ handled = NotHandled

HangSpec == InitHang /\ [][Next]_vars /\ WF_vars(Next)

\* the claim traced twice, the second trace asked for at any time: before, while
\* or after the first one runs; on every plain chain and on the diamond
InitInterleaved ==
    /\ claim = TheClaim
    /\ cluster \in {d \in ChainClusters : d.to = 0} \cup {NoFaults}
    /\ scope = {1, 2}
    /\ inv = [r \in Runs |-> Locals0]
    /\ kube = Kube0
    /\ modal = Modal0
    /\ handled = NotHandled

NextInterleaved ==
    \E r \in scope :
        \/ Call(r)
        \/ CompositeResp(r)
        \/ CompositionResp(r)
        \/ RevisionsResp(r)
        \/ RevisionResp(r)
        \/ ProvidersResp(r)
        \/ FunctionsResp(r)
        \/ ConfigurationsResp(r)
        \/ \E id \in CallIds(r) : ManagedResp(r, id)
        \/ \E id \in CallIds(r) : ManagedEventsResp(r, id)
        \/ ClaimEventsResp(r)
        \/ CompositeEventsResp(r)
        \/ CompositionEventsResp(r)

InterleavedSpec == InitInterleaved /\ [][NextInterleaved]_vars

\* one invocation on every plain chain and on the diamond, while the user may
\* select another context at any time
InitContext ==
    /\ claim = TheClaim
    /\ cluster \in {d \in ChainClusters : d.to = 0} \cup {NoFaults}
    /\ scope = {1}
    /\ inv = [r \in Runs |-> Locals0]
    /\ kube = Kube0
    /\ modal = Modal0
    /\ handled = NotHandled

NextContext ==
    \/ Next
    \/ \E contextName \in Contexts : SetContext(contextName)

ContextSpec == InitContext /\ [][NextContext]_vars

\* the requests the handler is given: GET and POST, for one object and for a
\* list, namespaced and not, of custom resources and of core resources
ApiGroups == {<<"e","x",".","i","o">>, <<"s","3",".","a","w","s",".","i","o">>}
ApiVersions == {<<"v","1">>, <<"v","1","b","e","t","a","1">>}
ApiNamespaces == {<<"n","s">>, <<"d","e","f","a","u","l","t">>}
ApiPlurals == {<<"d","b","s">>, <<"b","u","c","k","e","t","s">>}
ApiNames == {<<"r","a">>, <<"r","b">>}

ApiPrefix(g, v) == S_apis \o g \o S_slash \o v \o S_slash

ApiRequests ==
    { [form |-> "get namespaced", group |-> g, version |-> v, namespace |-> ns,
       plural |-> p, name |-> n,
       path |-> ApiPrefix(g, v) \o S_namespaces \o S_slash \o ns \o S_slash \o p
                \o S_slash \o n]
      : g \in ApiGroups, v \in ApiVersions, ns \in ApiNamespaces, p \in ApiPlurals,
        n \in ApiNames }
    \cup
    { [form |-> "list namespaced", group |-> g, version |-> v, namespace |-> ns,
       plural |-> p,
       path |-> ApiPrefix(g, v) \o S_namespaces \o S_slash \o ns \o S_slash \o p]
      : g \in ApiGroups, v \in ApiVersions, ns \in ApiNamespaces, p \in ApiPlurals }
    \cup
    { [form |-> "get", group |-> g, version |-> v, plural |-> p, name |-> n,
       path |-> ApiPrefix(g, v) \o p \o S_slash \o n]
      : g \in ApiGroups, v \in ApiVersions, p \in ApiPlurals, n \in ApiNames }
    \cup
    { [form |-> "list", group |-> g, version |-> v, plural |-> p,
       path |-> ApiPrefix(g, v) \o p]
      : g \in ApiGroups, v \in ApiVersions, p \in ApiPlurals }
    \cup
    { [form |-> "core", path |-> <<"/","a","p","i","/","v","1","/","n","a","m","e","s","p","a","c","e","s","/","n","s","/","e","v","e","n","t","s">>],
      [form |-> "core", path |-> <<"/","a","p","i","/","v","1","/","e","v","e","n","t","s">>] }

InitHandler ==
    /\ claim = TheClaim
    /\ cluster = NoFaults
    /\ scope = {1}
    /\ inv = [r \in Runs |-> Locals0]
    /\ kube \in {Kube0, [Kube0 EXCEPT !.current = ""]}
    /\ modal = Modal0
    /\ handled = NotHandled

NextHandler == \E asked \in ApiRequests, method \in {"GET", "POST"} : K8sApi(asked, method)

HandlerSpec == InitHandler /\ [][NextHandler]_vars

(* ------------------------------------------------------------------ *)
(* Properties                                                          *)
(* ------------------------------------------------------------------ *)

Frames(r) == inv[r].frames
\* the identity a call computed for its reference
Identity(r, id) == Frames(r)[id].resourceId

\* the calls of an invocation that sent a request for their reference
Fetching(r) == {id \in DOMAIN Frames(r) : Frames(r)[id].path # ""}

\* the calling frame of a call (<<>> for the managed references of the composite)
Parent(id) == SubSeq(id, 1, Len(id) - 1)

\* the nodes of a tree of fetched resources, as a set of <<position, node>>
RECURSIVE Nodes(_, _)
Nodes(resources, at) ==
    UNION { {<<at \o <<k>>, resources[k]>>} \cup Nodes(resources[k].dependencies, at \o <<k>>)
            : k \in DOMAIN resources }

\* the nodes of the trace an invocation returned
TraceNodes(r) == Nodes(inv[r].result.managedResources, <<>>)

TraceReturned(r) == inv[r].pc = "done" /\ inv[r].result.t = "trace"

\* the nodes of the tree that are the resource a reference names
NodesOf(r, ref) ==
    {n \in TraceNodes(r) : /\ n[2].kind = ref.kind
                           /\ n[2].apiVersion = ref.apiVersion
                           /\ n[2].metadata.name = ref.name}

\* C1: in one invocation at most one call per identity sends a request, every
\* other call for the identity has returned null without a request, and the
\* requests sent for a path are the calls that fetch it (and, for the path of
\* the composite, the request fetchResourceTrace itself sent)
C1_OneFetchPerIdentity ==
    \A r \in scope :
        /\ \A f \in Fetching(r), g \in Fetching(r) :
              Identity(r, f) = Identity(r, g) => f = g
        /\ \A g \in DOMAIN Frames(r) \ Fetching(r) :
              Frames(r)[g].pc = "done" /\ Frames(r)[g].result = NULL
        /\ \A f \in Fetching(r) :
              Count(inv[r].sent, Frames(r)[f].path)
                  = Cardinality({g \in Fetching(r) : Frames(r)[g].path = Frames(r)[f].path})
                    + (IF Frames(r)[f].path = XrPath THEN 1 ELSE 0)

\* an identity referenced from two parents: one call fetched it and returned its
\* node, the other found it registered
C1_Witness ==
    \E f \in DOMAIN Frames(1), g \in DOMAIN Frames(1) :
        /\ Identity(1, f) = Identity(1, g)
        /\ Parent(f) # Parent(g)
        /\ Frames(1)[f].result # NULL
        /\ Frames(1)[g].log = "already processed"

\* two calls of an invocation for one identity, made by different parents, the
\* first of which fetched the resource
TwoParents(r, f, g) ==
    /\ Identity(r, f) # ""
    /\ Identity(r, f) = Identity(r, g)
    /\ Parent(f) # Parent(g)
    /\ Frames(r)[f].resource # NULL

\* C2: the trace returned has exactly one node for every identity that two
\* different parents reference and whose resource was fetched
C2_ExactlyOneNode ==
    \A r \in scope :
        TraceReturned(r) =>
            \A f \in DOMAIN Frames(r), g \in DOMAIN Frames(r) :
                TwoParents(r, f, g) => Cardinality(NodesOf(r, Frames(r)[f].ref)) = 1

HasCompositeRef(c) == Has(c, "spec") /\ Has(c.spec, "resourceRef")

\* C3: a call with a claim that has no composite reference fails with an error
\* and sends no request
C3_NoCompositeRef ==
    \A r \in scope :
        (inv[r].pc # "idle" /\ claim # NULL /\ ~HasCompositeRef(claim))
            => (inv[r].pc = "done" /\ inv[r].result = Failed /\ inv[r].sent = <<>>)

C3_Witness ==
    /\ claim # NULL
    /\ ~HasCompositeRef(claim)
    /\ inv[1].pc = "done"
    /\ inv[1].result = Failed

\* the outcome of the fetch of the composite of the claim
CompositeFetch == Answer(Str(CompositePath(claim.spec.resourceRef)))

AwaitsComposite(r) == inv[r].pc \in {"idle", "composite"}

\* C4: when the fetch of the composite returns no object, or fails, the call fails
\* with an error and the request for the composite is the only one it has sent
C4_CompositeNotFound ==
    \A r \in scope :
        (/\ claim # NULL
         /\ HasCompositeRef(claim)
         /\ Has(claim.spec.resourceRef, "kind")
         /\ ~AwaitsComposite(r)
         /\ CompositeFetch.t # "value")
            => /\ inv[r].pc = "done"
               /\ inv[r].result = Failed
               /\ inv[r].sent = (Str(CompositePath(claim.spec.resourceRef)) :> 1)

\* the composite is not found (the fetch returns null) and the call has failed
C4_Witness ==
    /\ inv[1].pc = "done"
    /\ inv[1].result = Failed
    /\ inv[1].sent # <<>>
    /\ CompositeFetch = ReturnedNull

\* a call whose fetch was sent and returned no resource
FetchFailed(r, f) ==
    /\ Frames(r)[f].pc = "done"
    /\ Frames(r)[f].path # ""
    /\ Frames(r)[f].resource = NULL

\* C5: once the composite is fetched the call never fails: it returns a trace of
\* that composite; a managed resource whose fetch failed has no node, and every
\* other call that built a node has its node in the trace
C5_AlwaysReturnsTrace ==
    \A r \in scope :
        inv[r].xrData # NULL =>
            /\ inv[r].result # Failed
            /\ inv[r].pc = "done" =>
                  /\ inv[r].result.t = "trace"
                  /\ inv[r].result.composite.metadata = inv[r].xrData.metadata
                  /\ Cardinality(TraceNodes(r))
                        = Cardinality({f \in DOMAIN Frames(r) : Frames(r)[f].result # NULL})
            /\ \A f \in DOMAIN Frames(r) :
                  FetchFailed(r, f) =>
                      /\ Frames(r)[f].result = NULL
                      /\ (Len(f) > 1 /\ Frames(r)[Parent(f)].pc = "done")
                            => Frames(r)[Parent(f)].result # NULL

\* a trace was returned although the fetch of a managed resource raised an error,
\* and the resource that references it has its node
C5_Witness ==
    /\ TraceReturned(1)
    /\ \E f \in DOMAIN Frames(1) :
          /\ FetchFailed(1, f)
          /\ Frames(1)[f].log = "error"
          /\ Len(f) > 1
          /\ \E n \in TraceNodes(1) : n[1] = Parent(f)

\* the greatest depth of a node in a tree of fetched resources (0 at the top level)
TreeDepth(r) ==
    LET levels == {Len(n[1]) - 1 : n \in TraceNodes(r)}
    IN CHOOSE d \in levels : \A e \in levels : e <= d

LongChain == cluster.family = "chain" /\ cluster.len > MaxDepth /\ cluster.to = 0

\* C6: a call at depth maxDepth or more returns null without a request, no node of
\* a returned trace sits at depth maxDepth or more, and on a chain of more than
\* maxDepth resources the trace is returned with the first maxDepth resources,
\* nested to depth maxDepth - 1, and nothing beyond
C6_DepthLimit ==
    \A r \in scope :
        /\ \A f \in DOMAIN Frames(r) :
              Frames(r)[f].depth >= MaxDepth
                  => (Frames(r)[f].path = "" /\ Frames(r)[f].result = NULL
                      /\ Frames(r)[f].pc = "done")
        /\ TraceReturned(r) => \A n \in TraceNodes(r) : Len(n[1]) - 1 < MaxDepth
        /\ (LongChain /\ inv[r].pc = "done") =>
              /\ inv[r].result.t = "trace"
              /\ TreeDepth(r) = MaxDepth - 1
              /\ Cardinality(TraceNodes(r)) = MaxDepth
              /\ \A i \in 1..MaxDepth : Count(inv[r].sent, NodePath(i)) = 1
              /\ \A i \in (MaxDepth + 1)..(cluster.len + 1) : Count(inv[r].sent, NodePath(i)) = 0

\* the chain of maxDepth + 1 resources has been traced
C6_Witness ==
    /\ cluster.family = "chain"
    /\ cluster.len = MaxDepth + 1
    /\ cluster.to = 0
    /\ TraceReturned(1)
    /\ \E f \in DOMAIN Frames(1) : Frames(1)[f].log = "max depth"

\* the segments of a path joined with "/"
RECURSIVE JoinPath(_)
JoinPath(segments) ==
    IF Len(segments) = 0 THEN <<>>
    ELSE IF Len(segments) = 1 THEN segments[1]
    ELSE segments[1] \o S_slash \o JoinPath(Tail(segments))

\* path.replace(/\/namespaces\/[^/]+/, '')
ClusterPath(path) ==
    LET segments == Split(path, "/")
        hits == {i \in 2..(Len(segments) - 1) :
                    segments[i] = S_namespaces /\ Len(segments[i + 1]) > 0}
    IN IF hits = {} THEN path
       ELSE LET i == CHOOSE h \in hits : \A k \in hits : h <= k
            IN JoinPath(SubSeq(segments, 1, i - 1) \o SubSeq(segments, i + 2, Len(segments)))

\* path.replace(/\/([^/]+)\/([^/]+)$/, `/namespaces/${ref.namespace || 'default'}/$1/$2`)
NamespacedPath(path, ref) ==
    LET segments == Split(path, "/")
        n == Len(segments)
        namespace == IF Truthy(ref, "namespace") THEN ref.namespace
                     ELSE <<"d", "e", "f", "a", "u", "l", "t">>
    IN IF n >= 3 /\ Len(segments[n - 1]) > 0 /\ Len(segments[n]) > 0
       THEN JoinPath(SubSeq(segments, 1, n - 2) \o <<S_namespaces, namespace>>
                     \o SubSeq(segments, n - 1, n))
       ELSE path

\* the path at which a reference whose fetch was not found would be tried again
RetryPath(ref) ==
    LET path == ResourcePath(ref)
    IN IF Includes(path, S_slash \o S_namespaces \o S_slash)
       THEN Str(ClusterPath(path))
       ELSE Str(NamespacedPath(path, ref))

\* the handler answers a request for the path with a 404
NotFound(path) ==
    LET outcome == Gateway(cluster, path)
    IN outcome \in {ErrorResponse(StatusNotFound), Rejection(StatusNotFound)}

\* C7: a call whose fetch was not found (404) has sent exactly one more request,
\* at the path of the other scope, before it returned
C7_RetryOnce ==
    \A r \in scope :
        \A f \in DOMAIN Frames(r) :
            (FetchFailed(r, f) /\ NotFound(Frames(r)[f].path))
                => Count(inv[r].sent, RetryPath(Frames(r)[f].ref)) = 1

\* a resource has a condition of the type with status "True"
HasCondition(dep, type) ==
    /\ Has(dep, "status")
    /\ Has(dep.status, "conditions")
    /\ \E i \in DOMAIN dep.status.conditions :
          dep.status.conditions[i] = Condition(type, "True")

\* C8: the node of a fetched resource has propagatedStatus.ready true exactly
\* when each of its dependencies that was kept has a Ready condition with status
\* "True", and synced likewise for Synced; with no dependency both are true
C8_PropagatedStatus ==
    \A r \in scope :
        \A f \in DOMAIN Frames(r) :
            Frames(r)[f].result # NULL =>
                LET node == Frames(r)[f].result
                    deps == node.dependencies
                IN /\ deps = ValidDependencies(Dependencies(Frames(r), f))
                   /\ node.propagatedStatus.ready
                         = (\A i \in DOMAIN deps : HasCondition(deps[i], "Ready"))
                   /\ node.propagatedStatus.synced
                         = (\A i \in DOMAIN deps : HasCondition(deps[i], "Synced"))
                   /\ deps = <<>> => (node.propagatedStatus.ready /\ node.propagatedStatus.synced)

\* a node with one dependency that is Ready and one that is not
C8_Witness ==
    \E f \in DOMAIN Frames(1) :
        /\ Frames(1)[f].result # NULL
        /\ Len(Frames(1)[f].result.dependencies) = 2
        /\ HasCondition(Frames(1)[f].result.dependencies[1], "Ready")
        /\ ~HasCondition(Frames(1)[f].result.dependencies[2], "Ready")
        /\ ~Frames(1)[f].result.propagatedStatus.ready
        /\ Frames(1)[f].result.propagatedStatus.synced

\* C9: two traces of one claim on one cluster have registered the same identities
\* when both are complete, whatever the order in which the requests were answered
C9_SameVisitedSet ==
    (inv[1].pc = "done" /\ inv[2].pc = "done")
        => inv[1].processedResources = inv[2].processedResources

\* what identifies the resource a reference names
RefKey(ref) ==
    <<ref.kind, ref.apiVersion, IF Has(ref, "namespace") THEN ref.namespace ELSE NULL, ref.name>>

RECURSIVE Requests(_, _)
Requests(sent, paths) ==
    IF paths = {} THEN 0
    ELSE LET p == CHOOSE q \in paths : TRUE
         IN Count(sent, p) + Requests(sent, paths \ {p})

\* the requests an invocation has sent for managed references
ManagedFetches(r) == Requests(inv[r].sent, {Frames(r)[f].path : f \in Fetching(r)})

\* the identities of the references an invocation has come across
Referenced(r) == {RefKey(Frames(r)[f].ref) : f \in DOMAIN Frames(r)}

\* C10: when every request is answered the call completes, and it never has sent
\* more requests for managed references than it has come across distinct identities
C10_Terminates ==
    /\ [](\A r \in scope : ManagedFetches(r) <= Cardinality(Referenced(r)))
    /\ <>(\A r \in scope : inv[r].pc = "done")

\* a trace is complete on a cluster in which the references form a cycle
C10_Witness ==
    /\ cluster.family = "graph"
    /\ \/ \E i \in 1..NumNodes : <<i, i>> \in cluster.edges
       \/ \E i \in 1..NumNodes, j \in 1..NumNodes :
             i # j /\ <<i, j>> \in cluster.edges /\ <<j, i>> \in cluster.edges
    /\ inv[1].pc = "done"
    /\ \E f \in DOMAIN Frames(1) : Frames(1)[f].log = "already processed"

\* the calls of an invocation whose request is never answered
Hung(r) == {f \in Fetching(r) : Frames(r)[f].pc = "fetch" /\ Hangs(cluster, Frames(r)[f].path)}

\* the calls made for the other references of the parent of a call
Siblings(r, f) == {g \in DOMAIN Frames(r) : Len(g) = Len(f) /\ Parent(g) = Parent(f) /\ g # f}

\* a call has returned the node of its resource with every reference of the
\* resource expanded
Expanded(r, g) ==
    /\ Frames(r)[g].pc = "done"
    /\ Frames(r)[g].result # NULL
    /\ Frames(r)[g].kids = Len(FilterBoolean(ExtractRefs(Frames(r)[g].resource)))
    /\ \A k \in 1..Frames(r)[g].kids : Frames(r)[g \o <<k>>].pc = "done"

\* C11: while the fetch of one reference never returns, the managed references
\* are still called, and every other reference of the same parent has its request
\* sent and answered and its subtree expanded to completion
C11_HungBlocksOwnBranch ==
    <>[](/\ inv[1].pc \in {"managed", "done"}
         /\ \A f \in Hung(1) : \A g \in Siblings(1, f) :
               Count(inv[1].sent, Frames(1)[g].path) = 1 /\ Expanded(1, g))

\* one of three references hangs and the two others have returned their nodes,
\* one of them with its own dependency
C11_Witness ==
    /\ cluster.family = "hang"
    /\ \E f \in Hung(1) :
          /\ Cardinality(Siblings(1, f)) = 2
          /\ \A g \in Siblings(1, f) : Expanded(1, g)
          /\ \E g \in Siblings(1, f) : Len(Frames(1)[g].result.dependencies) = 1

\* the form of the reference of the composite, on the clusters that have one
Form == RefForms[cluster.form]

\* the call for the one managed reference has been made
Called(r) == <<1>> \in DOMAIN Frames(r)

\* the call for the reference asked for the path at which the cluster serves the
\* resource, once, and for none of the paths the form excludes
FetchedAtServed(r) ==
    /\ Frames(r)[<<1>>].path = Form.served
    /\ Count(inv[r].sent, Form.served) = 1
    /\ \A p \in Form.never : Count(inv[r].sent, p) = 0

\* C12: a reference whose group contains "aws" is fetched at the cluster-scoped
\* path /apis/<group>/<version>/<plural>/<name>, with or without a namespace
C12_AwsClusterScoped ==
    \A r \in scope :
        (cluster.family = "refs" /\ cluster.form \in AwsForms /\ Called(r))
            => FetchedAtServed(r)

\* the aws reference that carries a namespace was fetched at the cluster-scoped
\* path and its node is in the trace
C12_Witness ==
    /\ cluster.family = "refs"
    /\ Has(Form.ref, "namespace")
    /\ cluster.form \in AwsForms
    /\ TraceReturned(1)
    /\ Len(inv[1].result.managedResources) = 1

\* C13: a reference with kind and apiVersion of a group without "aws" is fetched
\* at the namespaced path when it has a namespace and at the cluster-scoped path
\* otherwise; a string reference is fetched at the string itself
C13_ScopeByNamespace ==
    \A r \in scope :
        (cluster.family = "refs" /\ cluster.form \in OtherForms \cup StringForms /\ Called(r))
            => FetchedAtServed(r)

\* a namespaced reference and a string reference: each fetched, its node in the trace
C13_Witness ==
    /\ cluster.family = "refs"
    /\ cluster.form \in StringForms
    /\ TraceReturned(1)
    /\ Len(inv[1].result.managedResources) = 1

\* the claim that was passed is `c` (the call adds the events to the object)
ClaimIs(c) == DOMAIN c \subseteq DOMAIN claim /\ [f \in DOMAIN c |-> claim[f]] = c

\* the request for the composite of the claim has been sent
CompositeRequested(r) == inv[r].pc \notin {"idle", "composite"} \/ inv[r].sent # <<>>

\* C14: the plural in a path built from a kind is the lower-cased kind, with "s"
\* appended unless it already ends in "s": for the composite of the claim and for
\* every managed reference
C14_PluralRule ==
    \A r \in scope :
        /\ (ClaimIs(RedisClaim) /\ CompositeRequested(r))
               => Count(inv[r].sent, RedisPath) = 1
        /\ (ClaimIs(TheClaim) /\ CompositeRequested(r))
               => Count(inv[r].sent, XrPath) = 1
        /\ (cluster.family = "refs" /\ cluster.form \in AwsForms \cup OtherForms /\ Called(r))
               => FetchedAtServed(r)

\* the composite that the cluster serves for TheClaim names no composition
NamesNoComposition ==
    /\ Gateway(cluster, XrPath).resolve
    /\ Has(Gateway(cluster, XrPath).response, "data")
    /\ ~Has(Gateway(cluster, XrPath).response.data.spec, "compositionRef")

\* the requests for a composition or for composition revisions
CompositionRequests ==
    { "/apis/apiextensions.crossplane.io/v1/compositions/cmp",
      "/apis/apiextensions.crossplane.io/v1/compositions/undefined",
      "/apis/apiextensions.crossplane.io/v1/compositionrevisions",
      "/apis/apiextensions.crossplane.io/v1/compositionrevisions/cmp",
      "/apis/apiextensions.crossplane.io/v1/compositionrevisions/undefined" }

\* C15: when the composite has no spec.compositionRef, no composition and no
\* composition revision is requested, and the call returns a trace with
\* composition null
C15_NoCompositionRef ==
    \A r \in scope :
        (ClaimIs(TheClaim) /\ NamesNoComposition)
            => /\ DOMAIN inv[r].sent \cap CompositionRequests = {}
               /\ inv[r].pc = "done"
                    => (inv[r].result # Failed /\ inv[r].result.composition = NULL)

\* a trace is returned for a composite without compositionRef that has a managed
\* resource
C15_Witness ==
    /\ ClaimIs(TheClaim)
    /\ NamesNoComposition
    /\ TraceReturned(1)
    /\ inv[1].result.composition = NULL
    /\ Len(inv[1].result.managedResources) = 1

\* the three requests about the composition of the composite
CompositionPath == "/apis/apiextensions.crossplane.io/v1/compositions/cmp"
RevisionListPath == "/apis/apiextensions.crossplane.io/v1/compositionrevisions"
ActiveRevisionPath == "/apis/apiextensions.crossplane.io/v1/compositionrevisions/cmp"

\* requests about the composition fail, and no other request does
CompositionFaults ==
    /\ ClaimIs(TheClaim)
    /\ cluster.family = "fault"
    /\ cluster.failing # {}
    /\ cluster.failing \subseteq {CompositionPath, RevisionListPath, ActiveRevisionPath}

ServedComposite == Gateway(cluster, XrPath).response.data

\* a trace was returned for TheClaim (so the fetch of its composite succeeded)
CompositeTraced(r) == ClaimIs(TheClaim) /\ TraceReturned(r)

\* C17: the composite of the trace is the object the fetch of the composite
\* returned: the same fields with the same values
C17_CompositeVerbatim ==
    \A r \in scope :
        CompositeTraced(r) => inv[r].result.composite = ServedComposite

\* C17, as the code has it: the composite of the trace has every field of the
\* fetched object with the value fetched, and two fields more: events and
\* connectionDetails
C17_CompositePlusEvents ==
    \A r \in scope :
        CompositeTraced(r)
            => /\ DOMAIN inv[r].result.composite
                    = DOMAIN ServedComposite \cup {"events", "connectionDetails"}
               /\ \A f \in DOMAIN ServedComposite :
                     inv[r].result.composite[f] = ServedComposite[f]
               /\ {"events", "connectionDetails"} \cap DOMAIN ServedComposite = {}

\* a trace whose composite carries the events the cluster has for it
C17_Witness ==
    /\ CompositeTraced(1)
    /\ inv[1].result.composite.events # <<>>
    /\ inv[1].result.composite.spec = ServedComposite.spec

\* the names of the resources of a list of nodes, in the order of the list
Names(nodes) == [i \in DOMAIN nodes |-> Str(nodes[i].metadata.name)]

\* a trace was returned on the cluster with a reference in every location
OrderTraced(r, at) == cluster.family = "order" /\ cluster.at = at /\ TraceReturned(r)

\* the managed resources of the composite are those of its first four locations,
\* in the order spec.resourceRefs, status.resourceRefs, status.resources,
\* status.resource.refs
FourLocationsInOrder(r) ==
    OrderTraced(r, "composite")
        => Names(inv[r].result.managedResources) = <<"ra", "rb", "rc", "rd">>

\* C18: the dependencies of a fetched resource are its children in the order
\* spec.resourceRefs, status.resourceRefs, status.resources, status.resource.refs,
\* connection details of type Reference, references; the managed resources of the
\* trace follow the first four locations of the composite
C18_ListedOrder ==
    \A r \in scope :
        /\ FourLocationsInOrder(r)
        /\ OrderTraced(r, "resource")
              => Names(inv[r].result.managedResources[1].dependencies)
                     = <<"ra", "rb", "rc", "rd", "re", "rf">>

\* C18, as the code has it: in the dependencies of a fetched resource the children
\* of the connection details of type Reference come before those of
\* status.resource.refs
C18_CodeOrder ==
    \A r \in scope :
        /\ FourLocationsInOrder(r)
        /\ OrderTraced(r, "resource")
              => Names(inv[r].result.managedResources[1].dependencies)
                     = <<"ra", "rb", "rc", "re", "rd", "rf">>

\* a resource with a reference in each of the six locations was fetched and has
\* its six children
C18_Witness ==
    /\ OrderTraced(1, "resource")
    /\ Len(inv[1].result.managedResources) = 1
    /\ Len(inv[1].result.managedResources[1].dependencies) = 6

\* requests for the events of managed resources fail, and no other request does
EventFaults ==
    /\ ClaimIs(TheClaim)
    /\ cluster.family = "fault"
    /\ cluster.failing # {}
    /\ cluster.failing \subseteq {NodeEventsPath(i) : i \in 1..3}

\* C19: a managed resource whose events cannot be fetched is in the tree with no
\* events, and its references are expanded as they are when the events are
\* fetched: the two resources of the composite and the resource both reference
\* are each in the tree once, the shared one as a dependency
C19_EventsFailure ==
    \A r \in scope :
        (EventFaults /\ inv[r].pc = "done")
            => /\ inv[r].result # Failed
               /\ Names(inv[r].result.managedResources) = <<"ra", "rb">>
               /\ \A i \in 1..3 :
                     /\ Cardinality(NodesOf(r, NodeRef(i))) = 1
                     /\ \A n \in NodesOf(r, NodeRef(i)) :
                           /\ n[2].events = IF NodeEventsPath(i) \in cluster.failing
                                            THEN <<>>
                                            ELSE <<Event(NodeName(i))>>
                           /\ Len(n[1]) = IF i = 3 THEN 2 ELSE 1

\* the events of a resource of the composite could not be fetched; the resource is
\* in the tree without events and with its dependency
C19_Witness ==
    /\ EventFaults
    /\ cluster.failing = {NodeEventsPath(1)}
    /\ TraceReturned(1)
    /\ inv[1].result.managedResources[1].events = <<>>
    /\ Names(inv[1].result.managedResources[1].dependencies) = <<"rc">>

\* the resources an invocation alone fetches on the cluster: the chain down to the
\* depth limit, or the three resources of the diamond
Reached ==
    IF cluster.family = "chain"
    THEN 1..(IF cluster.len < MaxDepth THEN cluster.len ELSE MaxDepth)
    ELSE 1..3

\* the places of the tree with the name of the resource at each
Shape(r) == {<<n[1], Str(n[2].metadata.name)>> : n \in TraceNodes(r)}

\* the trees an invocation alone returns: the chain is nested to the depth limit;
\* in the diamond the shared resource is under the first or under the second
\* resource of the composite
AloneShapes ==
    IF cluster.family = "chain"
    THEN { {<<[j \in 1..k |-> 1], Str(NodeName(k))>> : k \in Reached} }
    ELSE { {<<<<1>>, "ra">>, <<<<2>>, "rb">>, <<<<k, 1>>, "rc">>} : k \in 1..2 }

\* the invocation has registered the identity and sent the request for it
FetchedBy(r, i) ==
    /\ Str(ResourceId(NodeRef(i))) \in inv[r].processedResources
    /\ Count(inv[r].sent, NodePath(i)) = 1

\* C20: of two invocations on one claim, one after the other or interleaved, each
\* has its own visited set: what one has registered the other still fetches, and
\* each returns a tree that an invocation alone returns on the cluster
C20_OwnVisitedSet ==
    \A r \in scope :
        /\ \A x \in inv[r].processedResources :
              \E id \in Fetching(r) :
                 Identity(r, id) = x /\ Count(inv[r].sent, Frames(r)[id].path) = 1
        /\ inv[r].pc = "done"
              => /\ inv[r].result # Failed
                 /\ \A i \in Reached : FetchedBy(r, i)
                 /\ Shape(r) \in AloneShapes
        /\ (inv[1].pc = "done" /\ inv[2].pc = "done" /\ cluster.family = "chain")
              => inv[1].result = inv[2].result

\* the second invocation registers and fetches a resource that the first one,
\* still running, has registered already
C20_Witness ==
    /\ inv[1].pc = "managed"
    /\ inv[2].pc = "managed"
    /\ \E id \in Fetching(2) :
          /\ Frames(2)[id].pc = "fetch"
          /\ Identity(2, id) \in inv[1].processedResources
          /\ Identity(2, id) \in inv[2].processedResources

\* the paths at which the cluster serves something
ServedPaths == {e[1] : e \in ClusterEntries(cluster)}

\* the sum of the requests sent, over all paths
AllRequests(r) == Requests(inv[r].sent, DOMAIN inv[r].sent)

\* C21: a reference without a name, with a name but without kind or apiVersion,
\* or an empty string is skipped: no request is sent for it, the call does not
\* fail, it yields no node, and the reference after it in the same list is
\* fetched and is in the tree
C21_UnresolvableSkipped ==
    \A r \in scope :
        cluster.family = "skip"
            => /\ DOMAIN inv[r].sent \subseteq ServedPaths
               /\ \A id \in DOMAIN Frames(r) :
                     Frames(r)[id].ref = BadRefs[cluster.bad]
                         => (Frames(r)[id].pc = "done" /\ Frames(r)[id].result = NULL)
               /\ inv[r].pc = "done"
                     => /\ inv[r].result # Failed
                        /\ Shape(r) = IF cluster.at = "composite"
                                      THEN {<<<<1>>, "ra">>}
                                      ELSE {<<<<1>>, "ra">>, <<<<1, 1>>, "rb">>}
                        /\ \A i \in 1..(IF cluster.at = "composite" THEN 1 ELSE 2) :
                              Count(inv[r].sent, NodePath(i)) = 1

\* a resource lists a reference with a name and no kind before a good one; the
\* trace has the good one as its only dependency
C21_Witness ==
    /\ cluster.family = "skip"
    /\ cluster.at = "resource"
    /\ ~Has(BadRefs[cluster.bad], "kind")
    /\ Has(BadRefs[cluster.bad], "name")
    /\ TraceReturned(1)
    /\ Names(inv[1].result.managedResources[1].dependencies) = <<"rb">>

\* the three requests for the installed packages
PackagePaths ==
    { "/apis/pkg.crossplane.io/v1/providers",
      "/apis/pkg.crossplane.io/v1/functions",
      "/apis/pkg.crossplane.io/v1/configurations" }

\* a request for the packages fails on the cluster
PackageFault == cluster.family = "fault" /\ cluster.failing \cap PackagePaths # {}

\* C22: the trace that is returned carries the list of package dependencies: the
\* providers, the functions and the configurations, each with its package type,
\* when the three fetches succeed; the empty list when one of them fails
C22_PackageList ==
    \A r \in scope :
        TraceReturned(r)
            => /\ Has(inv[r].result, "packageDependencies")
               /\ IF PackageFault
                  THEN inv[r].result.packageDependencies = <<>>
                  ELSE [i \in DOMAIN inv[r].result.packageDependencies |->
                           Str(inv[r].result.packageDependencies[i].packageType)]
                       = <<"provider", "function", "configuration">>

\* the k8s-api handler answers the request for the path with an error of the code
HandlerReports(path, code) ==
    \E g \in {Gateway(cluster, path)} :
        g.resolve /\ Has(g.response, "error") /\ g.response.statusCode = code

\* C23: fetchResource returns null, and does not throw, when the handler reports
\* the status code 404, and throws when it reports another failure: the call for a
\* reference logs "no resource" in the first case and an error in the second
C23_NotFoundDistinct ==
    \A r \in scope : \A id \in Fetching(r) :
        Frames(r)[id].pc = "done"
            => /\ HandlerReports(Frames(r)[id].path, StatusNotFound)
                    => /\ Answer(Frames(r)[id].path) = ReturnedNull
                       /\ Frames(r)[id].log = "no resource"
               /\ HandlerReports(Frames(r)[id].path, StatusServerError)
                    => /\ Answer(Frames(r)[id].path) = Thrown
                       /\ Frames(r)[id].log = "error"

\* the call fetched its reference: the request was answered with an object
FetchSucceeded(r, id) ==
    /\ id \in Fetching(r)
    /\ Frames(r)[id].pc = "done"
    /\ Answer(Frames(r)[id].path).t = "value"

\* C24: a call that fetched its reference returns a node with dependencies,
\* events, connectionDetails and propagatedStatus, whatever the object fetched; the
\* node of an object without spec has no dependencies
C24_NodeForEveryFetch ==
    \A r \in scope : \A id \in DOMAIN Frames(r) :
        FetchSucceeded(r, id)
            => /\ Frames(r)[id].result # NULL
               /\ {"dependencies", "events", "connectionDetails", "propagatedStatus"}
                      \subseteq DOMAIN Frames(r)[id].result
               /\ ~Has(Answer(Frames(r)[id].path).v, "spec")
                      => Frames(r)[id].result.dependencies = <<>>

\* C26: the call leaves the claim it was given as it was: when the call has
\* returned or failed, the claim is one of the claims a caller passes, with the
\* fields and the values it had
C26_ClaimUnchanged ==
    \A r \in scope : inv[r].pc = "done" => claim \in Claims

\* C27: no path is requested twice in one invocation, and two references that
\* resolve to one path give one node
C27_OneFetchPerPath ==
    \A r \in scope :
        /\ \A p \in DOMAIN inv[r].sent : Count(inv[r].sent, p) <= 1
        /\ (TraceReturned(r) /\ cluster.family = "alias" /\ cluster.kind \in {"aws", "path"})
              => Cardinality({n \in TraceNodes(r) : n[2].metadata.name = NodeName(1)}) = 1

\* C28: the composite is requested once, and it is no node of the tree: a resource
\* that references the composite gets no node for it
C28_CompositeOnce ==
    \A r \in scope :
        ClaimIs(TheClaim)
            => /\ Count(inv[r].sent, XrPath) <= 1
               /\ TraceReturned(r)
                     => \A n \in TraceNodes(r) : n[2].metadata.name # XrRef.name

\* the handler took a GET request of the form and made a call for it
Handled(form) ==
    /\ handled # NotHandled
    /\ handled.method = "GET"
    /\ handled.asked.form = form
    /\ handled.call.api # "throw"

\* C25: for GET /apis/<group>/<version>/namespaces/<ns>/<plural>/<name> the
\* handler gets the custom object <name> of <plural> in <ns>, and for
\* GET /apis/<group>/<version>/namespaces/<ns>/<plural> it lists <plural> in
\* <ns>: group, version, namespace, plural and name are the segments of the path
C25_NamespacedPathParsed ==
    /\ Handled("get namespaced")
          => handled.call = [api |-> "getNamespacedCustomObject",
                             group |-> handled.asked.group,
                             version |-> handled.asked.version,
                             namespace |-> handled.asked.namespace,
                             plural |-> handled.asked.plural,
                             name |-> handled.asked.name]
    /\ Handled("list namespaced")
          => handled.call = [api |-> "listNamespacedCustomObject",
                             group |-> handled.asked.group,
                             version |-> handled.asked.version,
                             namespace |-> handled.asked.namespace,
                             plural |-> handled.asked.plural]

\* C29: the requests of one invocation are all served in one context: a trace that
\* is returned was not fetched from two contexts
C29_OneContextPerTrace ==
    \A r \in scope : TraceReturned(r) => Cardinality(kube.used[r]) <= 1

\* a call of fetchResourceTrace is in flight
InFlight(r) == inv[r].pc \notin {"idle", "done"}

\* C30: when a second call is made while the first is in flight, the modal shows,
\* once both have completed, the result of the second call, and loading is false
\* only when no call is in flight
C30_LatestTraceShown ==
    /\ (inv[1].pc = "done" /\ inv[2].pc = "done" /\ inv[2].result # Failed)
          => modal.traceData = inv[2].result
    /\ modal.loading = FALSE => \A r \in scope : ~InFlight(r)

====
